---------------------------- MODULE Spec2Model ----------------------------
(***************************************************************************)
(* A model of the zendit statement pipeline: the ICICI adapter's           *)
(* transaction segmenter, the rule-based conversion, the worker that       *)
(* drives a parse request, and the ML enrichment pipeline with its         *)
(* rule-based fallbacks.                                                   *)
(*                                                                         *)
(* Strings of the program are sequences of one-character strings, so that  *)
(* the regular expressions, trims, splits and case conversions of the     *)
(* source are computed character by character.  An optional value          *)
(* (undefined | v) is the sequence <<>> or <<v>>.  Amounts are counted in  *)
(* hundredths, confidence scores in thousandths.                           *)
(***************************************************************************)
EXTENDS Integers, Sequences, FiniteSets, TLC

VARIABLES
    rows,                \* segmenter: the rows of the page being scanned
    rowIndex,            \* segmenter: index of the next row (1-based)
    currentTransaction,  \* segmenter: the open record, <<>> when null
    transactions,        \* segmenter: the records emitted so far
    workload,            \* worker: the files the host submits, in order
    cancelled,           \* worker: the module-level cancelled flag
    req,                 \* worker: the locals of each handleParse call
    posted,              \* worker: the messages posted for each request
    pipeline,            \* enrichment: the MLTransactionPipeline object
    call,                \* enrichment: the arguments of enrichTransaction
    merchantStage,       \* enrichment: how the merchant extractor settled
    classifierStage,     \* enrichment: how the classifier settled
    mlMerchantResult,    \* enrichment: what extractMerchantWithFallback gave
    mlCategoryResult,    \* enrichment: what classifyWithFallback gave
    enrichment,          \* enrichment: the promise of enrichTransaction
    items,               \* page: textContent.items, sorted in place
    rowRuns,             \* page: the rows built by each run over items
    dateArg,             \* parseDate: the argument
    parsedDate,          \* parseDate: the completion, <<>> before the call
    ruleArgs,            \* rules: the arguments of a call of a rule function
    ruleResult           \* rules: what the call returned, <<>> before it

segVars == <<rows, rowIndex, currentTransaction, transactions>>

workerVars == <<workload, cancelled, req, posted>>

enrichVars == <<pipeline, call, merchantStage, classifierStage,
                mlMerchantResult, mlCategoryResult, enrichment>>

pageVars == <<items, rowRuns>>

dateVars == <<dateArg, parsedDate>>

\* no page is being grouped, parseDate has not been called
PageIdle == items = <<>> /\ rowRuns = <<>>

DateIdle == dateArg = <<>> /\ parsedDate = <<>>

ruleVars == <<ruleArgs, ruleResult>>

\* no rule function has been called
RuleIdle == ruleArgs = <<>> /\ ruleResult = <<>>

vars == <<rows, rowIndex, currentTransaction, transactions,
          workload, cancelled, req, posted,
          pipeline, call, merchantStage, classifierStage,
          mlMerchantResult, mlCategoryResult, enrichment,
          items, rowRuns, dateArg, parsedDate, ruleArgs, ruleResult>>

-----------------------------------------------------------------------------
(* Characters and strings *)

None == <<>>

Some(x) == <<x>>

Digits == {"0", "1", "2", "3", "4", "5", "6", "7", "8", "9"}

DigitValue == [c \in Digits |->
    CASE c = "0" -> 0 [] c = "1" -> 1 [] c = "2" -> 2 [] c = "3" -> 3
      [] c = "4" -> 4 [] c = "5" -> 5 [] c = "6" -> 6 [] c = "7" -> 7
      [] c = "8" -> 8 [] c = "9" -> 9]

UpperToLower ==
    [A |-> "a", B |-> "b", C |-> "c", D |-> "d", E |-> "e", F |-> "f",
     G |-> "g", H |-> "h", I |-> "i", J |-> "j", K |-> "k", L |-> "l",
     M |-> "m", N |-> "n", O |-> "o", P |-> "p", Q |-> "q", R |-> "r",
     S |-> "s", T |-> "t", U |-> "u", V |-> "v", W |-> "w", X |-> "x",
     Y |-> "y", Z |-> "z"]

LowerToUpper ==
    [a |-> "A", b |-> "B", c |-> "C", d |-> "D", e |-> "E", f |-> "F",
     g |-> "G", h |-> "H", i |-> "I", j |-> "J", k |-> "K", l |-> "L",
     m |-> "M", n |-> "N", o |-> "O", p |-> "P", q |-> "Q", r |-> "R",
     s |-> "S", t |-> "T", u |-> "U", v |-> "V", w |-> "W", x |-> "X",
     y |-> "Y", z |-> "Z"]

LowerChar(c) == IF c \in DOMAIN UpperToLower THEN UpperToLower[c] ELSE c

UpperChar(c) == IF c \in DOMAIN LowerToUpper THEN LowerToUpper[c] ELSE c

toLowerCase(s) == [i \in 1..Len(s) |-> LowerChar(s[i])]

toUpperCase(s) == [i \in 1..Len(s) |-> UpperChar(s[i])]

IsDigit(c) == c \in Digits

IsSpace(c) == c = " "

\* the literal lit (given in lower case) stands at position i of s,
\* compared without regard to case (the regexes' i flag)
LitAt(s, i, lit) ==
    /\ i >= 1
    /\ i + Len(lit) - 1 <= Len(s)
    /\ \A k \in 1..Len(lit) : LowerChar(s[i + k - 1]) = lit[k]

\* String.prototype.includes on a lower-cased subject
includes(s, lit) == \E i \in 1..Len(s) : LitAt(s, i, lit)

RECURSIVE SkipSpaces(_, _)
\* the position after a greedy \s* that starts at i
SkipSpaces(s, i) ==
    IF i <= Len(s) /\ IsSpace(s[i]) THEN SkipSpaces(s, i + 1) ELSE i

RECURSIVE SkipDigits(_, _)
\* the position after a greedy \d* that starts at i
SkipDigits(s, i) ==
    IF i <= Len(s) /\ IsDigit(s[i]) THEN SkipDigits(s, i + 1) ELSE i

AllDigits(s, from, to) == \A k \in from..to : IsDigit(s[k])

RECURSIVE TrimStart(_)
TrimStart(s) ==
    IF s /= <<>> /\ IsSpace(Head(s)) THEN TrimStart(Tail(s)) ELSE s

RECURSIVE TrimEnd(_)
TrimEnd(s) ==
    IF s /= <<>> /\ IsSpace(s[Len(s)])
    THEN TrimEnd(SubSeq(s, 1, Len(s) - 1))
    ELSE s

trim(s) == TrimEnd(TrimStart(s))

RECURSIVE CollapseSpaces(_)
\* replace(/\s+/g, " ")
CollapseSpaces(s) ==
    IF s = <<>> THEN <<>>
    ELSE IF IsSpace(Head(s))
         THEN <<" ">> \o CollapseSpaces(TrimStart(s))
         ELSE <<Head(s)>> \o CollapseSpaces(Tail(s))

RECURSIVE RemoveChar(_, _)
\* replace(/c/g, "")
RemoveChar(s, c) ==
    IF s = <<>> THEN <<>>
    ELSE IF Head(s) = c THEN RemoveChar(Tail(s), c)
         ELSE <<Head(s)>> \o RemoveChar(Tail(s), c)

RECURSIVE join(_, _)
\* Array.prototype.join
join(parts, sep) ==
    IF parts = <<>> THEN <<>>
    ELSE IF Len(parts) = 1 THEN parts[1]
         ELSE parts[1] \o sep \o join(Tail(parts), sep)

RECURSIVE DeleteMatches(_, _, _)
\* replace(re, "") with the g flag: ends[i] is the position after the match
\* that starts at i, or 0 when the regex does not match there
DeleteMatches(s, ends, i) ==
    IF i > Len(s) THEN <<>>
    ELSE IF ends[i] > 0 THEN DeleteMatches(s, ends, ends[i])
         ELSE <<s[i]>> \o DeleteMatches(s, ends, i + 1)

-----------------------------------------------------------------------------
(* Text Normalizer: helpers.ts isSystemText and cleanDescription *)

\* /Page \d+$/i at position i
PageFooterAt(s, i) ==
    /\ LitAt(s, i, <<"p","a","g","e"," ">>)
    /\ i + 5 <= Len(s)
    /\ AllDigits(s, i + 5, Len(s))

\* /signature\.\s*Page/i at position i
SignaturePageAt(s, i) ==
    /\ LitAt(s, i, <<"s","i","g","n","a","t","u","r","e",".">>)
    /\ LitAt(s, SkipSpaces(s, i + 10), <<"p","a","g","e">>)

\* /Date\s*Description\s*Amount\s*Type/i at position i
ColumnHeaderAt(s, i) ==
    LET d == SkipSpaces(s, i + 4)
        a == SkipSpaces(s, d + 11)
        t == SkipSpaces(s, a + 6)
    IN  /\ LitAt(s, i, <<"d","a","t","e">>)
        /\ LitAt(s, d, <<"d","e","s","c","r","i","p","t","i","o","n">>)
        /\ LitAt(s, a, <<"a","m","o","u","n","t">>)
        /\ LitAt(s, t, <<"t","y","p","e">>)

\* \d{2}\/\d{2}\/\d{4} at position i
SlashDateAt(s, i) ==
    /\ i >= 1
    /\ i + 9 <= Len(s)
    /\ AllDigits(s, i, i + 1)
    /\ s[i + 2] = "/"
    /\ AllDigits(s, i + 3, i + 4)
    /\ s[i + 5] = "/"
    /\ AllDigits(s, i + 6, i + 9)

\* /From \d{2}\/\d{2}\/\d{4} To \d{2}\/\d{2}\/\d{4}/i at position i
DateRangeAt(s, i) ==
    /\ LitAt(s, i, <<"f","r","o","m"," ">>)
    /\ SlashDateAt(s, i + 5)
    /\ LitAt(s, i + 15, <<" ","t","o"," ">>)
    /\ SlashDateAt(s, i + 19)

isSystemText(text) ==
    \/ LitAt(text, 1, <<"t","h","i","s"," ","i","s"," ","a"," ","s","y","s","t","e","m","-","g","e","n","e","r","a","t","e","d">>)
    \/ includes(text, <<"h","e","n","c","e",","," ","i","t"," ","d","o","e","s"," ","n","o","t"," ","r","e","q","u","i","r","e">>)
    \/ includes(text, <<"a","n","y"," ","s","i","g","n","a","t","u","r","e">>)
    \/ \E i \in 1..Len(text) : PageFooterAt(text, i)
    \/ \E i \in 1..Len(text) : SignaturePageAt(text, i)
    \/ includes(text, <<"a","c","c","o","u","n","t"," ","n","u","m","b","e","r">>)
    \/ includes(text, <<"t","r","a","n","s","a","c","t","i","o","n"," ","d","a","t","e">>)
    \/ \E i \in 1..Len(text) : ColumnHeaderAt(text, i)
    \/ \E i \in 1..Len(text) : DateRangeAt(text, i)

\* /This is a system-generated statement\.?\s*/gi: the position after the
\* match that starts at i, 0 when there is none
SystemStatementEnd(s, i) ==
    LET lit == <<"t","h","i","s"," ","i","s"," ","a"," ","s","y","s","t","e","m","-","g","e","n","e","r","a","t","e","d"," ","s","t","a","t","e","m","e","n","t">>
        e == i + Len(lit)
        d == IF e <= Len(s) /\ s[e] = "." THEN e + 1 ELSE e
    IN  IF LitAt(s, i, lit) THEN SkipSpaces(s, d) ELSE 0

\* /Hence,?\s*it does not require any signature\.?\s*/gi
HenceEnd(s, i) ==
    LET lit == <<"i","t"," ","d","o","e","s"," ","n","o","t"," ","r","e","q","u","i","r","e"," ","a","n","y"," ","s","i","g","n","a","t","u","r","e">>
        c == IF i + 5 <= Len(s) /\ s[i + 5] = "," THEN i + 6 ELSE i + 5
        b == SkipSpaces(s, c)
        e == b + Len(lit)
        d == IF e <= Len(s) /\ s[e] = "." THEN e + 1 ELSE e
    IN  IF LitAt(s, i, <<"h","e","n","c","e">>) /\ LitAt(s, b, lit)
        THEN SkipSpaces(s, d)
        ELSE 0

\* /\s*Page \d+\s*/gi
PageNumberEnd(s, i) ==
    LET p == SkipSpaces(s, i)
    IN  IF LitAt(s, p, <<"p","a","g","e"," ">>)
           /\ p + 5 <= Len(s) /\ IsDigit(s[p + 5])
        THEN SkipSpaces(s, SkipDigits(s, p + 5))
        ELSE 0

\* /signature\.\s*Page\s*\d+/gi
SignaturePageNumberEnd(s, i) ==
    LET p == SkipSpaces(s, i + 10)
        d == SkipSpaces(s, p + 4)
    IN  IF LitAt(s, i, <<"s","i","g","n","a","t","u","r","e",".">>)
           /\ LitAt(s, p, <<"p","a","g","e">>)
           /\ d <= Len(s) /\ IsDigit(s[d])
        THEN SkipDigits(s, d)
        ELSE 0

RECURSIVE StripTrailingSlashes(_)
\* replace(/\/+$/, "")
StripTrailingSlashes(s) ==
    IF s /= <<>> /\ s[Len(s)] = "/"
    THEN StripTrailingSlashes(SubSeq(s, 1, Len(s) - 1))
    ELSE s

cleanDescription(description) ==
    CHOOSE cleaned \in
      { trim(CollapseSpaces(StripTrailingSlashes(s4))) :
          s4 \in { DeleteMatches(s3, [i \in 1..Len(s3) |->
                                        SignaturePageNumberEnd(s3, i)], 1) :
          s3 \in { DeleteMatches(s2, [i \in 1..Len(s2) |->
                                        PageNumberEnd(s2, i)], 1) :
          s2 \in { DeleteMatches(s1, [i \in 1..Len(s1) |-> HenceEnd(s1, i)], 1) :
          s1 \in { DeleteMatches(description,
                       [i \in 1..Len(description) |->
                           SystemStatementEnd(description, i)], 1) } } } } }
      : TRUE

-----------------------------------------------------------------------------
(* icici.ts: the token patterns of extractTransactionsFromPage *)

\* /^(\d{2}[-\/]\d{2}[-\/]\d{4})$/
datePattern(text) ==
    /\ Len(text) = 10
    /\ AllDigits(text, 1, 2)
    /\ text[3] \in {"-", "/"}
    /\ AllDigits(text, 4, 5)
    /\ text[6] \in {"-", "/"}
    /\ AllDigits(text, 7, 10)

RECURSIVE CommaGroups(_, _)
\* (?:,\d{3})*(?:\.\d{2})?$ from position i
CommaGroups(s, i) ==
    IF i > Len(s) THEN TRUE
    ELSE IF s[i] = "," /\ i + 3 <= Len(s) /\ AllDigits(s, i + 1, i + 3)
         THEN CommaGroups(s, i + 4)
         ELSE s[i] = "." /\ i + 2 = Len(s) /\ AllDigits(s, i + 1, i + 2)

\* /^(\d{1,3}(?:,\d{3})*(?:\.\d{2})?)$|^(\d+\.?\d*)$/
amountPattern(text) ==
    \/ \E n \in 1..3 :
          /\ n <= Len(text)
          /\ AllDigits(text, 1, n)
          /\ CommaGroups(text, n + 1)
    \/ LET j == SkipDigits(text, 1)
       IN  /\ j > 1
           /\ \/ j > Len(text)
              \/ text[j] = "." /\ AllDigits(text, j + 1, Len(text))

\* /^(DR|CR)$/
typePattern(text) == text = <<"D","R">> \/ text = <<"C","R">>

RECURSIVE NatOf(_)
NatOf(digs) ==
    IF digs = <<>> THEN 0
    ELSE NatOf(SubSeq(digs, 1, Len(digs) - 1)) * 10 + DigitValue[digs[Len(digs)]]

\* parseFloat of a string of digits with an optional fraction, in hundredths
\* (the tokens of the model carry at most two fraction digits)
parseFloat(text) ==
    LET j    == SkipDigits(text, 1)
        frac == SubSeq(text, j + 1, Len(text))
        cents == IF Len(frac) = 0 THEN 0
                 ELSE IF Len(frac) = 1 THEN NatOf(frac) * 10
                 ELSE NatOf(SubSeq(frac, 1, 2))
    IN  NatOf(SubSeq(text, 1, j - 1)) * 100 + cents

\* JavaScript truthiness of an optional number: undefined and 0 are falsy
Truthy(opt) == opt /= None /\ opt[1] /= 0

-----------------------------------------------------------------------------
(* icici.ts: the Transaction Segmenter of extractTransactionsFromPage *)

\* row.map((item) => item.str.trim()).filter(...)
RECURSIVE rowText(_)
rowText(row) ==
    IF row = <<>> THEN <<>>
    ELSE LET str == trim(Head(row))
         IN  IF Len(str) > 0 /\ ~isSystemText(str)
             THEN <<str>> \o rowText(Tail(row))
             ELSE rowText(Tail(row))

\* rowText.findIndex((text) => datePattern.test(text)), 0 for -1
dateIndex(texts) ==
    IF \E i \in 1..Len(texts) : datePattern(texts[i])
    THEN CHOOSE i \in 1..Len(texts) :
            /\ datePattern(texts[i])
            /\ \A j \in 1..(i - 1) : ~datePattern(texts[j])
    ELSE 0

\* one token of a header row (the row that holds the date)
HeaderToken(acc, text) ==
    IF typePattern(text)
    THEN [acc EXCEPT !.type = Some(text)]
    ELSE IF amountPattern(text) /\ ~Truthy(acc.amount)
         THEN [acc EXCEPT !.amount = Some(parseFloat(RemoveChar(text, ",")))]
         ELSE IF Len(text) > 1
              THEN [acc EXCEPT !.descriptionParts = Append(@, text)]
              ELSE acc

RECURSIVE HeaderScan(_, _, _, _)
HeaderScan(texts, di, i, acc) ==
    IF i > Len(texts) THEN acc
    ELSE IF i = di THEN HeaderScan(texts, di, i + 1, acc)
         ELSE HeaderScan(texts, di, i + 1, HeaderToken(acc, texts[i]))

\* the record a date row opens
StartTransaction(texts, di) ==
    HeaderScan(texts, di, 1,
               [date |-> texts[di], descriptionParts |-> <<>>,
                amount |-> None, type |-> None])

\* one token of a continuation row
ContinuationToken(tx, text) ==
    IF typePattern(text) /\ tx.type = None
    THEN [tx EXCEPT !.type = Some(text)]
    ELSE IF amountPattern(text) /\ ~Truthy(tx.amount)
         THEN [tx EXCEPT !.amount = Some(parseFloat(RemoveChar(text, ",")))]
         ELSE IF Len(text) > 1 /\ ~typePattern(text) /\ ~amountPattern(text)
              THEN [tx EXCEPT !.descriptionParts = Append(@, text)]
              ELSE tx

RECURSIVE ContinuationScan(_, _, _)
ContinuationScan(texts, i, tx) ==
    IF i > Len(texts) THEN tx
    ELSE ContinuationScan(texts, i + 1, ContinuationToken(tx, texts[i]))

\* a mutation of IsComplete: the amount is not looked at
IsCompleteDateOnly(cur) ==
    /\ cur /= None
    /\ Len(cur[1].date) > 0

\* currentTransaction?.date && currentTransaction?.amount
IsComplete(cur) ==
    /\ cur /= None
    /\ Len(cur[1].date) > 0
    /\ Truthy(cur[1].amount)

\* the description a record is emitted with
FinalDescription(tx) ==
    cleanDescription(trim(CollapseSpaces(join(tx.descriptionParts, <<" ">>))))

\* "Save previous transaction if complete" and "Don't forget the last
\* transaction": the output after the open record is finalized
\* a finalization that puts the record in front of the emitted ones
FinalizeInFront(cur, out) ==
    CHOOSE result \in
      { IF Len(description) > 0
        THEN <<[date        |-> c[1].date,
                description |-> description,
                amount      |-> c[1].amount,
                type        |-> IF c[1].type = None
                                THEN <<"D","R">>
                                ELSE c[1].type[1]]>> \o o
        ELSE o
        : description \in { IF IsComplete(c) THEN FinalDescription(c[1])
                            ELSE <<>> : c \in {cur} },
          c \in {cur}, o \in {out} }
      : TRUE

\* the open record is emitted when it is complete and its description is
\* not empty (the description is computed once)
Finalize(cur, out) ==
    CHOOSE result \in
      { IF Len(description) > 0
        THEN Append(o, [date        |-> c[1].date,
                        description |-> description,
                        amount      |-> c[1].amount,
                        type        |-> IF c[1].type = None
                                        THEN <<"D","R">>
                                        ELSE c[1].type[1]])
        ELSE o
        : description \in { IF IsComplete(c) THEN FinalDescription(c[1])
                            ELSE <<>> : c \in {cur} },
          c \in {cur}, o \in {out} }
      : TRUE

\* the body of the loop over rows, for one row whose kept texts are texts
SegmentTexts(st, texts, di) ==
    IF Len(texts) = 0 THEN st
    ELSE IF di /= 0
         THEN [cur |-> Some(StartTransaction(texts, di)),
               out |-> Finalize(st.cur, st.out)]
         ELSE IF st.cur /= None
              THEN [st EXCEPT !.cur = Some(ContinuationScan(texts, 1, st.cur[1]))]
              ELSE st

\* the body of the loop over rows, for one row (rowText and dateIndex are
\* computed once)
SegmentRow(st, row) ==
    CHOOSE next \in { SegmentTexts(st, texts, dateIndex(texts)) :
                         texts \in {rowText(row)} } : TRUE

RECURSIVE SegmentRows(_, _, _)
SegmentRows(rs, i, st) ==
    IF i > Len(rs) THEN st
    ELSE CHOOSE last \in { SegmentRows(rs, i + 1, next) :
                              next \in {SegmentRow(st, rs[i])} } : TRUE

\* the segmenter as a function of the rows of a page
SegmentPage(rs) ==
    CHOOSE out \in
      { Finalize(st.cur, st.out) :
          st \in {SegmentRows(rs, 1, [cur |-> None, out |-> <<>>])} }
      : TRUE

-----------------------------------------------------------------------------
(* Rule-Based Enrichment: helpers.ts *)

Unknown == <<"U","n","k","n","o","w","n">>

Others == <<"O","t","h","e","r","s">>

RECURSIVE GroupEnd(_, _)
\* the position after a greedy [^\/]* that starts at i
GroupEnd(s, i) ==
    IF i <= Len(s) /\ s[i] /= "/" THEN GroupEnd(s, i + 1) ELSE i

\* the patterns of UPI_MERCHANT_PATTERNS: a prefix matched without regard
\* to case, then one or two groups of [^\/]+ separated by a slash
UPI_MERCHANT_PATTERNS ==
    << [prefix |-> <<"u","p","i","/">>, extractGroup |-> 1],
       [prefix |-> <<"i","m","p","s","/">>, extractGroup |-> 2],
       [prefix |-> <<"n","e","f","t","/">>, extractGroup |-> 2],
       [prefix |-> <<"r","t","g","s","/">>, extractGroup |-> 2],
       [prefix |-> <<"b","i","l","/">>, extractGroup |-> 1] >>

\* match[extractGroup] when the pattern's regex matches at position i,
\* None when it does not
GroupAt(s, i, pattern) ==
    LET b1 == i + Len(pattern.prefix)
        e1 == GroupEnd(s, b1)
        b2 == e1 + 1
        e2 == GroupEnd(s, b2)
    IN  IF ~LitAt(s, i, pattern.prefix) \/ e1 = b1 THEN None
        ELSE IF pattern.extractGroup = 1 THEN Some(SubSeq(s, b1, e1 - 1))
        ELSE IF e1 > Len(s) \/ e2 = b2 THEN None
        ELSE Some(SubSeq(s, b2, e2 - 1))

\* cleanDesc.match(pattern.regex)[pattern.extractGroup]: the leftmost match
PatternMatch(s, pattern) ==
    LET hits == {i \in 1..Len(s) : GroupAt(s, i, pattern) /= None}
    IN  IF hits = {} THEN None
        ELSE GroupAt(s, CHOOSE i \in hits : \A j \in hits : i <= j, pattern)

MERCHANT_NORMALIZATIONS ==
    { << <<"S","W","I","G","G","Y">>,
         <<"S","w","i","g","g","y">> >>,
      << <<"S","W","I","G","G","Y","I","N","S","T">>,
         <<"S","w","i","g","g","y"," ","I","n","s","t","a","m","a","r","t">> >>,
      << <<"S","W","I","G","G","Y","I","N","S","T","A","M","A","R">>,
         <<"S","w","i","g","g","y"," ","I","n","s","t","a","m","a","r","t">> >>,
      << <<"Z","O","M","A","T","O">>,
         <<"Z","o","m","a","t","o">> >>,
      << <<"N","E","T","F","L","I","X">>,
         <<"N","e","t","f","l","i","x">> >>,
      << <<"N","E","T","F","L","I","X"," ","C","O">>,
         <<"N","e","t","f","l","i","x">> >>,
      << <<"A","M","A","Z","O","N">>,
         <<"A","m","a","z","o","n">> >>,
      << <<"F","L","I","P","K","A","R","T">>,
         <<"F","l","i","p","k","a","r","t">> >>,
      << <<"M","Y","N","T","R","A">>,
         <<"M","y","n","t","r","a">> >>,
      << <<"A","J","I","O">>,
         <<"A","j","i","o">> >>,
      << <<"P","A","Y","T","M">>,
         <<"P","a","y","t","m">> >>,
      << <<"P","H","O","N","E","P","E">>,
         <<"P","h","o","n","e","P","e">> >>,
      << <<"G","P","A","Y">>,
         <<"G","o","o","g","l","e"," ","P","a","y">> >>,
      << <<"G","O","O","G","L","E"," ","I","N","D">>,
         <<"G","o","o","g","l","e">> >>,
      << <<"G","O","O","G","L","E"," ","I","N","D","I","A">>,
         <<"G","o","o","g","l","e">> >>,
      << <<"U","B","E","R">>,
         <<"U","b","e","r">> >>,
      << <<"O","L","A">>,
         <<"O","l","a">> >>,
      << <<"P","V","R"," ","I","N","O","X">>,
         <<"P","V","R"," ","I","n","o","x">> >>,
      << <<"P","V","R"," ","I","N","O","X"," ","L">>,
         <<"P","V","R"," ","I","n","o","x">> >> }

normalizeMerchantName(name) ==
    LET upperName == toUpperCase(name)
        hits == {p \in MERCHANT_NORMALIZATIONS : p[1] = upperName}
    IN  IF hits /= {} THEN (CHOOSE p \in hits : TRUE)[2] ELSE trim(name)

RECURSIVE ExtractFromNonEmpty(_, _)
\* the loop of extractMerchant taking every captured group that is not empty
ExtractFromNonEmpty(cleanDesc, k) ==
    IF k > Len(UPI_MERCHANT_PATTERNS) THEN Unknown
    ELSE CHOOSE r \in
           { IF m /= None /\ Len(trim(m[1])) > 0
             THEN normalizeMerchantName(trim(m[1]))
             ELSE ExtractFromNonEmpty(cleanDesc, k + 1)
             : m \in {PatternMatch(cleanDesc, UPI_MERCHANT_PATTERNS[k])} }
           : TRUE

RECURSIVE ExtractFrom(_, _)
\* the loop of extractMerchant from pattern k on
ExtractFrom(cleanDesc, k) ==
    IF k > Len(UPI_MERCHANT_PATTERNS) THEN Unknown
    ELSE CHOOSE r \in
           { IF m /= None /\ Len(trim(m[1])) > 2
             THEN normalizeMerchantName(trim(m[1]))
             ELSE ExtractFrom(cleanDesc, k + 1)
             : m \in {PatternMatch(cleanDesc, UPI_MERCHANT_PATTERNS[k])} }
           : TRUE

extractMerchant(description) == ExtractFrom(trim(description), 1)

determinePaymentMethod(description) ==
    LET desc == toLowerCase(description)
    IN  IF includes(desc, <<"b","h","q","r">>) \/ includes(desc, <<"q","r">>)
        THEN <<"Q","R"," ","C","o","d","e">>
        ELSE IF includes(desc, <<"g","p","a","y">>) THEN <<"G","o","o","g","l","e"," ","P","a","y">>
        ELSE IF includes(desc, <<"p","a","y","t","m">>) THEN <<"P","a","y","t","m">>
        ELSE IF includes(desc, <<"p","h","o","n","e","p","e">>) THEN <<"P","h","o","n","e","P","e">>
        ELSE IF includes(desc, <<"u","p","i">>) THEN <<"U","P","I">>
        ELSE IF includes(desc, <<"c","a","r","d">>) THEN <<"C","a","r","d">>
        ELSE IF includes(desc, <<"n","e","f","t">>) \/ includes(desc, <<"r","t","g","s">>)
        THEN <<"B","a","n","k"," ","T","r","a","n","s","f","e","r">>
        ELSE IF includes(desc, <<"b","i","l","/">>) THEN <<"B","i","l","l"," ","P","a","y","m","e","n","t">>
        ELSE IF includes(desc, <<"i","m","p","s">>) THEN <<"I","M","P","S">>
        ELSE <<"U","P","I">>

DEFAULT_CATEGORY_RULES ==
    <<
      [keywords |-> <<  >>,
       merchantKeywords |-> << <<"s","w","i","g","g","y">>,
                             <<"s","w","i","g","g","y"," ","i","n","s","t","a","m","a","r","t">>,
                             <<"z","o","m","a","t","o">> >>,
       category |-> <<"F","o","o","d"," ","&"," ","D","i","n","i","n","g">>,
       subcategory |-> Some(<<"F","o","o","d"," ","D","e","l","i","v","e","r","y">>),
       isRecurring |-> Some(FALSE),
       amountThreshold |-> None],
      [keywords |-> <<  >>,
       merchantKeywords |-> << <<"n","e","t","f","l","i","x">> >>,
       category |-> <<"E","n","t","e","r","t","a","i","n","m","e","n","t">>,
       subcategory |-> Some(<<"S","t","r","e","a","m","i","n","g"," ","S","e","r","v","i","c","e","s">>),
       isRecurring |-> Some(TRUE),
       amountThreshold |-> None],
      [keywords |-> <<  >>,
       merchantKeywords |-> << <<"p","v","r"," ","i","n","o","x">> >>,
       category |-> <<"E","n","t","e","r","t","a","i","n","m","e","n","t">>,
       subcategory |-> Some(<<"M","o","v","i","e","s">>),
       isRecurring |-> Some(FALSE),
       amountThreshold |-> None],
      [keywords |-> <<  >>,
       merchantKeywords |-> << <<"a","m","a","z","o","n">>,
                             <<"f","l","i","p","k","a","r","t">>,
                             <<"m","y","n","t","r","a">>,
                             <<"a","j","i","o">> >>,
       category |-> <<"S","h","o","p","p","i","n","g">>,
       subcategory |-> Some(<<"O","n","l","i","n","e"," ","S","h","o","p","p","i","n","g">>),
       isRecurring |-> Some(FALSE),
       amountThreshold |-> None],
      [keywords |-> <<  >>,
       merchantKeywords |-> << <<"u","b","e","r">>,
                             <<"o","l","a">> >>,
       category |-> <<"T","r","a","n","s","p","o","r","t","a","t","i","o","n">>,
       subcategory |-> None,
       isRecurring |-> Some(FALSE),
       amountThreshold |-> None],
      [keywords |-> <<  >>,
       merchantKeywords |-> << <<"p","a","y","t","m">>,
                             <<"p","h","o","n","e","p","e">>,
                             <<"g","o","o","g","l","e"," ","p","a","y">> >>,
       category |-> <<"T","r","a","n","s","f","e","r">>,
       subcategory |-> Some(<<"D","i","g","i","t","a","l"," ","W","a","l","l","e","t">>),
       isRecurring |-> Some(FALSE),
       amountThreshold |-> None],
      [keywords |-> << <<"a","t","m"," ","w","i","t","h","d","r","a","w","a","l">>, <<"c","a","s","h"," ","w","i","t","h","d","r","a","w","a","l">> >>,
       merchantKeywords |-> <<  >>,
       category |-> <<"C","a","s","h"," ","&"," ","A","T","M">>,
       subcategory |-> None,
       isRecurring |-> Some(FALSE),
       amountThreshold |-> None],
      [keywords |-> << <<"e","m","i">>, <<"l","o","a","n"," ","e","m","i">>, <<"p","e","r","s","o","n","a","l"," ","l","o","a","n">> >>,
       merchantKeywords |-> <<  >>,
       category |-> <<"F","i","n","a","n","c","e">>,
       subcategory |-> Some(<<"L","o","a","n","s"," ","&"," ","E","M","I">>),
       isRecurring |-> Some(TRUE),
       amountThreshold |-> None]
    >>

\* the test of one rule with the keywords looked up in the description and
\* the merchant together
RuleMatchesCombinedText(rule, desc, merch, amount) ==
    /\ \/ \E k \in 1..Len(rule.merchantKeywords) :
              includes(merch, toLowerCase(rule.merchantKeywords[k]))
       \/ \E k \in 1..Len(rule.keywords) :
              includes(desc \o <<" ">> \o merch, toLowerCase(rule.keywords[k]))
    /\ rule.amountThreshold = None

\* the test of one rule in categorizeTransaction; amounts in hundredths
RuleMatches(rule, desc, merch, amount) ==
    LET matchesMerchantKeywords ==
            \E k \in 1..Len(rule.merchantKeywords) :
                \/ merch = toLowerCase(rule.merchantKeywords[k])
                \/ includes(merch, toLowerCase(rule.merchantKeywords[k]))
        matchesKeywords ==
            \E k \in 1..Len(rule.keywords) :
                includes(desc, toLowerCase(rule.keywords[k]))
        matchesAmount ==
            \/ rule.amountThreshold = None
            \/ /\ (~Truthy(rule.amountThreshold[1].min)
                     \/ amount >= rule.amountThreshold[1].min[1])
               /\ (~Truthy(rule.amountThreshold[1].max)
                     \/ amount <= rule.amountThreshold[1].max[1])
    IN  (matchesMerchantKeywords \/ matchesKeywords) /\ matchesAmount

categorizeTransactionDefault(description, merchant, amount) ==
    [category |-> Others,
     subcategory |-> None,
     paymentMethod |-> determinePaymentMethod(description),
     isRecurring |-> FALSE]

categorizeTransaction(description, merchant, amount) ==
    LET desc == toLowerCase(description)
        merch == toLowerCase(merchant)
        hits == {k \in 1..Len(DEFAULT_CATEGORY_RULES) :
                    RuleMatches(DEFAULT_CATEGORY_RULES[k], desc, merch, amount)}
    IN  IF hits /= {}
        THEN LET rule == DEFAULT_CATEGORY_RULES[
                             CHOOSE k \in hits : \A j \in hits : k <= j]
             IN  [category |-> rule.category,
                  subcategory |-> rule.subcategory,
                  paymentMethod |-> determinePaymentMethod(description),
                  isRecurring |-> IF rule.isRecurring = None THEN FALSE
                                  ELSE rule.isRecurring[1]]
        ELSE [category |-> Others,
              subcategory |-> None,
              paymentMethod |-> determinePaymentMethod(description),
              isRecurring |-> FALSE]

HexDigits == Digits \cup {"a", "b", "c", "d", "e", "f"}

IsWordChar(c) ==
    c \in Digits \/ c \in DOMAIN UpperToLower \/ c \in DOMAIN LowerToUpper
        \/ c = "_"

IsUpperOrDigit(c) == c \in Digits \/ c \in DOMAIN UpperToLower

RECURSIVE HexEnd(_, _)
\* the position after a greedy [a-f0-9]* (i flag) that starts at i
HexEnd(s, i) ==
    IF i <= Len(s) /\ LowerChar(s[i]) \in HexDigits
    THEN HexEnd(s, i + 1) ELSE i

RECURSIVE UpperRunEnd(_, _)
\* the position after a greedy [A-Z0-9]* that starts at i
UpperRunEnd(s, i) ==
    IF i <= Len(s) /\ IsUpperOrDigit(s[i])
    THEN UpperRunEnd(s, i + 1) ELSE i

\* /(ICI[a-f0-9]+)/i matches at i
IciAt(s, i) == LitAt(s, i, <<"i","c","i">>) /\ HexEnd(s, i + 3) > i + 3

\* /(\b[A-Z0-9]{10,}\b)/ matches at i
RefAt(s, i) ==
    /\ i = 1 \/ ~IsWordChar(s[i - 1])
    /\ UpperRunEnd(s, i) - i >= 10
    /\ UpperRunEnd(s, i) > Len(s) \/ ~IsWordChar(s[UpperRunEnd(s, i)])

extractNotes(description) ==
    LET ici == {i \in 1..Len(description) : IciAt(description, i)}
        ref == {i \in 1..Len(description) : RefAt(description, i)}
    IN  IF ici /= {}
        THEN LET i == CHOOSE a \in ici : \A b \in ici : a <= b
             IN  Some(<<"T","r","a","n","s","a","c","t","i","o","n"," ","I","D",":"," ">>
                        \o SubSeq(description, i, HexEnd(description, i + 3) - 1))
        ELSE IF ref /= {}
        THEN LET i == CHOOSE a \in ref : \A b \in ref : a <= b
             IN  Some(<<"R","e","f","e","r","e","n","c","e",":"," ">>
                        \o SubSeq(description, i, UpperRunEnd(description, i) - 1))
        ELSE None

RECURSIVE AddTagsPush(_, _)
AddTagsPush(tags, candidates) ==
    CHOOSE result \in
      { IF c = <<>> THEN t
        ELSE AddTagsPush(IF Head(c)[1] THEN Append(t, Head(c)[2]) ELSE t,
                         Tail(c))
        : t \in {tags}, c \in {candidates} }
      : TRUE

RECURSIVE AddTags(_, _)
\* Set.prototype.add for each candidate <<condition, tag>> in order; the set
\* keeps insertion order
AddTags(tags, candidates) ==
    CHOOSE result \in
      { IF c = <<>> THEN t
        ELSE AddTags(IF Head(c)[1] /\ \A k \in 1..Len(t) : t[k] /= Head(c)[2]
                     THEN Append(t, Head(c)[2])
                     ELSE t,
                     Tail(c))
        : t \in {tags}, c \in {candidates} }
      : TRUE

RECURSIVE NonEmptyTags(_)
\* filter((tag) => tag.length > 0)
NonEmptyTags(tags) ==
    IF tags = <<>> THEN <<>>
    ELSE IF Len(Head(tags)) > 0
         THEN <<Head(tags)>> \o NonEmptyTags(Tail(tags))
         ELSE NonEmptyTags(Tail(tags))

\* category.toLowerCase().replace(/[\s&]/g, "-")
CategoryTag(category) ==
    [i \in 1..Len(category) |->
        IF category[i] = " " \/ category[i] = "&" THEN "-"
        ELSE LowerChar(category[i])]

\* amounts in hundredths
generateTags(description, merchant, category, amount) ==
    LET desc == toLowerCase(description)
    IN  NonEmptyTags(AddTags(<<>>,
          << <<TRUE, CategoryTag(category)>>,
             <<includes(desc, <<"u","p","i">>), <<"u","p","i">>>>,
             <<includes(desc, <<"n","e","f","t">>), <<"n","e","f","t">>>>,
             <<includes(desc, <<"i","m","p","s">>), <<"i","m","p","s">>>>,
             <<includes(desc, <<"r","t","g","s">>), <<"r","t","g","s">>>>,
             <<includes(desc, <<"a","t","m">>), <<"a","t","m">>>>,
             <<includes(desc, <<"h","d","f","c">>), <<"h","d","f","c","-","b","a","n","k">>>>,
             <<includes(desc, <<"i","c","i","c","i">>), <<"i","c","i","c","i","-","b","a","n","k">>>>,
             <<includes(desc, <<"a","x","i","s">>), <<"a","x","i","s","-","b","a","n","k">>>>,
             <<includes(desc, <<"s","b","i">>), <<"s","b","i","-","b","a","n","k">>>>,
             <<includes(desc, <<"w","i","t","h","d","r","a","w","a","l">>), <<"w","i","t","h","d","r","a","w","a","l">>>>,
             <<includes(desc, <<"t","r","a","n","s","f","e","r">>), <<"t","r","a","n","s","f","e","r">>>>,
             <<includes(desc, <<"p","a","y","m","e","n","t">>), <<"p","a","y","m","e","n","t">>>>,
             <<amount /= 0 /\ amount >= 1000000, <<"h","i","g","h","-","a","m","o","u","n","t">>>>,
             <<amount /= 0 /\ amount < 10000, <<"s","m","a","l","l","-","a","m","o","u","n","t">>>>,
             <<amount /= 0 /\ amount % 10000 = 0 /\ amount >= 100000,
               <<"r","o","u","n","d","-","a","m","o","u","n","t">>>> >>))

-----------------------------------------------------------------------------
(* helpers.ts: parseDate and convertToTransactionInterface *)

RECURSIVE split(_, _, _)
\* String.prototype.split on a set of separator characters; part is the
\* piece collected so far
split(s, seps, part) ==
    IF s = <<>> THEN <<part>>
    ELSE IF Head(s) \in seps
         THEN <<part>> \o split(Tail(s), seps, <<>>)
         ELSE split(Tail(s), seps, Append(part, Head(s)))

\* Number(str) for the pieces of a date: None stands for NaN
Number(str) ==
    IF str = <<>> THEN Some(0)
    ELSE IF AllDigits(str, 1, Len(str)) THEN Some(NatOf(str))
         ELSE None

IsLeapYear(y) == (y % 4 = 0 /\ y % 100 /= 0) \/ y % 400 = 0

\* a Date that never rolls over into the next month
DaysInMonthUnchecked(m, y) == 31

DaysInMonth(m, y) ==
    IF m = 2 THEN (IF IsLeapYear(y) THEN 29 ELSE 28)
    ELSE IF m \in {4, 6, 9, 11} THEN 30 ELSE 31

\* the "Validate date components" test of parseDate, negated
DateValuesInRange(day, month, year) ==
    /\ Truthy(day) /\ Truthy(month) /\ Truthy(year)
    /\ day[1] >= 1 /\ day[1] <= 31
    /\ month[1] >= 1 /\ month[1] <= 12
    /\ year[1] >= 1900

\* parseDate: Some(date) when it returns, None when it throws
\* "Invalid date format"
parseDate(dateStr) ==
    LET parts == split(dateStr, {"-", "/"}, <<>>)
    IN  IF Len(parts) /= 3 THEN None
        ELSE LET day   == Number(parts[1])
                 month == Number(parts[2])
                 year  == Number(parts[3])
             IN  IF ~DateValuesInRange(day, month, year) THEN None
                 ELSE IF day[1] > DaysInMonth(month[1], year[1]) THEN None
                      ELSE Some([day |-> day[1], month |-> month[1],
                                 year |-> year[1]])

RECURSIVE DecimalString(_)
\* String(n) of a natural number
DecimalString(n) ==
    LET digit == CHOOSE c \in Digits : DigitValue[c] = n % 10
    IN  IF n < 10 THEN <<digit>> ELSE Append(DecimalString(n \div 10), digit)

\* the transaction convertToTransactionInterface builds for the record at
\* index (0-based); its date is None when parseDate throws, its amount is
\* the record's optional amount, which the rule functions read as a number
ConvertOne(tx, index, accountNumber, bankName) ==
    LET amount == IF tx.amount = None THEN 0 ELSE tx.amount[1]
    IN  CHOOSE t \in
          { [id          |-> toLowerCase(bankName) \o <<"_">> \o accountNumber
                             \o <<"_">>
                             \o RemoveChar(RemoveChar(tx.date, "-"), "/")
                             \o <<"_">> \o DecimalString(index),
             date          |-> parseDate(tx.date),
             amount        |-> tx.amount,
             description   |-> tx.description,
             type          |-> IF tx.type = <<"D","R">> THEN "debit"
                               ELSE "credit",
             category      |-> categorization.category,
             subcategory   |-> categorization.subcategory,
             merchant      |-> merchant,
             account       |-> accountNumber,
             paymentMethod |-> categorization.paymentMethod,
             isRecurring   |-> categorization.isRecurring,
             tags          |-> generateTags(tx.description, merchant,
                                            categorization.category, amount),
             notes         |-> extractNotes(tx.description),
             isVerified    |-> FALSE]
            : <<merchant, categorization>> \in
                { <<m, categorizeTransaction(tx.description, m, amount)>>
                  : m \in {extractMerchant(tx.description)} } }
          : TRUE

\* convertToTransactionInterface: Some(transactions), or None when the map
\* throws because parseDate throws on one of the records
convertToTransactionInterface(parsedTransactions, accountNumber, bankName) ==
    CHOOSE result \in
      { IF \E i \in 1..Len(converted) : converted[i].date = None
        THEN None
        ELSE Some([i \in 1..Len(converted) |->
                     [converted[i] EXCEPT !.date = converted[i].date[1]]])
        : converted \in
            { [i \in 1..Len(txs) |->
                  ConvertOne(txs[i], i - 1, accountNumber, bankName)]
              : txs \in {parsedTransactions} } }
      : TRUE

-----------------------------------------------------------------------------
(* The pages the segmenter is run on *)

MaxRows == 3

RowVocabulary ==
    { \* 15-03-2024  UPI/NETFLIX/123  199.00  DR
      << <<"1","5","-","0","3","-","2","0","2","4">>,
         <<"U","P","I","/","N","E","T","F","L","I","X","/","1","2","3">>,
         <<"1","9","9",".","0","0">>, <<"D","R">> >>,
      \* 16/03/2024  UPI/SWIGGY/paytm          (no amount on the header row)
      << <<"1","6","/","0","3","/","2","0","2","4">>,
         <<"U","P","I","/","S","W","I","G","G","Y","/","p","a","y","t","m">> >>,
      \* 1,234.56  CR                          (amount and type on a later row)
      << <<"1",",","2","3","4",".","5","6">>, <<"C","R">> >>,
      \* YES BANK  x                           (description only)
      << <<" ","Y","E","S"," ","B","A","N","K">>, <<"x">> >>,
      \* 32-01-2024  UPI/NETFLIX/123  450      (date shape, not a date)
      << <<"3","2","-","0","1","-","2","0","2","4">>,
         <<"U","P","I","/","N","E","T","F","L","I","X","/","1","2","3">>,
         <<"4","5","0">> >>,
      \* 15-03-2024  UPI/NETFLIX/123  0.00  DR (an amount of zero)
      << <<"1","5","-","0","3","-","2","0","2","4">>,
         <<"U","P","I","/","N","E","T","F","L","I","X","/","1","2","3">>,
         <<"0",".","0","0">>, <<"D","R">> >>,
      \* Page 1                                (boilerplate)
      << <<"P","a","g","e"," ","1">>, <<" ">> >>,
      \* 15-03-2024  //  199.00                (description cleans to nothing)
      << <<"1","5","-","0","3","-","2","0","2","4">>, <<"/","/">>,
         <<"1","9","9",".","0","0">> >>,
      \* 16/03/2024  199.00  450  YES BANK CR  (two amount tokens)
      << <<"1","6","/","0","3","/","2","0","2","4">>,
         <<"1","9","9",".","0","0">>, <<"4","5","0">>,
         <<" ","Y","E","S"," ","B","A","N","K">>, <<"C","R">> >> }

RECURSIVE SeqsUpTo(_, _)
\* the sequences of at most n elements of S
SeqsUpTo(S, n) ==
    IF n = 0 THEN {<<>>}
    ELSE LET shorter == SeqsUpTo(S, n - 1)
         IN  shorter \cup {Append(q, e) : q \in shorter, e \in S}

Pages == SeqsUpTo(RowVocabulary, MaxRows)

-----------------------------------------------------------------------------
(* icici.ts: createIciciPdfParser, canParse and parse *)

\* the text of a page: textContent.items.map(item => item.str).join(" ")
RECURSIVE Flatten(_)
Flatten(rs) == IF rs = <<>> THEN <<>> ELSE Head(rs) \o Flatten(Tail(rs))

pageText(page) == join(Flatten(page.rows), <<" ">>)

\* canParse: the file name, else the text of the first page; every failure
\* of the decoder is caught and answered with false
canParse(doc) ==
    IF includes(toLowerCase(doc.fileName), <<"i","c","i","c","i">>) THEN TRUE
    ELSE IF ~doc.decodes THEN FALSE
    ELSE IF Len(doc.pages) = 0 THEN FALSE
    ELSE IF ~doc.pages[1].ok THEN FALSE
    ELSE \E text \in {toLowerCase(pageText(doc.pages[1]))} :
             \/ includes(text, <<"i","c","i","c","i"," ","b","a","n","k">>)
             \/ includes(text, <<"i","c","i","c","i">>)
             \/ includes(text, <<"i","n","d","u","s","t","r","i","a","l"," ","c","r","e","d","i","t"," ","a","n","d"," ","i","n","v","e","s","t","m","e","n","t"," ","c","o","r","p","o","r","a","t","i","o","n">>)

\* pageText.match(/Account Number:\s*(\d+)/i): the captured digits, None
\* when there is no match
accountMatch(pageTextOfPage) ==
    CHOOSE match \in
      { LET At(i) == /\ LitAt(text, i, <<"a","c","c","o","u","n","t"," ","n","u","m","b","e","r",":">>)
                     /\ SkipSpaces(text, i + 15) <= Len(text)
                     /\ IsDigit(text[SkipSpaces(text, i + 15)])
        IN  IF \E i \in 1..Len(text) : At(i)
            THEN LET i == CHOOSE i \in 1..Len(text) :
                             At(i) /\ \A j \in 1..(i - 1) : ~At(j)
                     d == SkipSpaces(text, i + 15)
                 IN  Some(SubSeq(text, d, SkipDigits(text, d) - 1))
            ELSE None
        : text \in {pageTextOfPage} }
      : TRUE

\* the progress fraction parse reports while it processes page pageNum, in
\* thousandths: 0.2 + (pageNum / pdf.numPages) * 0.7
PageFraction(pageNum, numPages) == 200 + (pageNum * 700) \div numPages

\* the body of parse's loop for one page whose text content was fetched:
\* the locals after it, or None when convertToTransactionInterface throws
ProcessPage(local, page) ==
    CHOOSE result \in
      { CHOOSE next \in
          { IF converted = None THEN None
            ELSE Some([local EXCEPT !.accountNumber = account,
                                    !.transactions = @ \o converted[1],
                                    !.pageNum = @ + 1])
            : converted \in
                { convertToTransactionInterface(
                      SegmentPage(page.rows), account, <<"I","C","I","C","I">>) } }
          : TRUE
        : account \in
            { IF m /= None THEN m[1] ELSE local.accountNumber
              : m \in { IF local.pageNum = 1
                        THEN accountMatch(pageText(page))
                        ELSE None } } }
      : TRUE

-----------------------------------------------------------------------------
(* The PDF worker: onmessage and handleParse *)

Requests == {1, 2}

IdleLocals ==
    [pc |-> "idle", pageNum |-> 0, transactions |-> <<>>, warnings |-> <<>>,
     accountNumber |-> <<>>]

Progress(percent) == [kind |-> "progress", progressPercent |-> percent]

Min(a, b) == IF a < b THEN a ELSE b

\* the callback handleParse hands to parse, p in thousandths:
\* emitProgress(Math.min(10 + Math.floor(p * 0.9), 99), m)
ParserProgress(p) == Progress(Min(10 + (p * 9) \div 10000, 99))

\* the messages parse emits once a page is done: the next page's progress,
\* or "Parsing complete" after the last page
AfterPage(pageNum, numPages) ==
    IF pageNum <= numPages
    THEN ParserProgress(PageFraction(pageNum, numPages))
    ELSE ParserProgress(1000)

\* parse swallows the failure and resolves with an empty result
ParseSwallowsFailure(cause) ==
    [kind |-> "complete",
     result |-> [bank |-> "ICICI", transactions |-> <<>>,
                 warnings |-> <<cause>>]]

ParseFailedAsNoParser(cause) ==
    [kind |-> "error", message |-> <<"No suitable parser found for this PDF.">>]

ParseFailed(cause) ==
    [kind |-> "error", message |-> <<"Failed to parse ICICI PDF", cause>>]

\* self.onmessage with a parse message: the flag is reset and handleParse
\* runs up to its first await
OnMessageParse(r) ==
    /\ r <= Len(workload)
    /\ req[r].pc = "idle"
    /\ \A q \in Requests : q < r => req[q].pc /= "idle"
    /\ cancelled' = FALSE
    /\ posted' = [posted EXCEPT ![r] = Append(@, Progress(2))]
    /\ req' = [req EXCEPT ![r].pc = "getParsers"]
    /\ UNCHANGED <<workload, segVars, pageVars, dateVars, ruleVars, enrichVars>>

\* a cancel that ends every parse in flight with an error message
OnMessageCancelAborts ==
    /\ cancelled' = TRUE
    /\ posted' = [r \in Requests |->
                     IF req[r].pc \notin {"idle", "done"}
                     THEN Append(posted[r],
                                 [kind |-> "error", message |-> <<"Cancelled">>])
                     ELSE posted[r]]
    /\ req' = [r \in Requests |->
                  IF req[r].pc \notin {"idle", "done"}
                  THEN [req[r] EXCEPT !.pc = "done"]
                  ELSE req[r]]
    /\ UNCHANGED <<workload, segVars, pageVars, dateVars, ruleVars, enrichVars>>

\* self.onmessage with a cancel message
OnMessageCancel ==
    /\ cancelled' = TRUE
    /\ UNCHANGED <<workload, req, posted, segVars, pageVars, dateVars, ruleVars, enrichVars>>

\* getParsers() has resolved: the parser's canParse is called
GetParsersResolves(r) ==
    /\ req[r].pc = "getParsers"
    /\ posted' = [posted EXCEPT ![r] = Append(@, Progress(5))]
    /\ req' = [req EXCEPT ![r].pc = "canParse"]
    /\ UNCHANGED <<workload, cancelled, segVars, pageVars, dateVars, ruleVars, enrichVars>>

\* the message posted when no parser accepts the document
NoSuitableParser ==
    [kind |-> "error", message |-> <<"No suitable parser found for this PDF.">>]

\* canParse has settled: no parser is selected, or parse is called and
\* runs up to the load of the document
CanParseSettles(r) ==
    /\ req[r].pc = "canParse"
    /\ IF ~canParse(workload[r])
       THEN /\ posted' = [posted EXCEPT ![r] = @ \o
                  << Progress(100),
                     NoSuitableParser >>]
            /\ req' = [req EXCEPT ![r].pc = "done"]
       ELSE /\ posted' = [posted EXCEPT ![r] = @ \o
                  << Progress(10), ParserProgress(100) >>]
            /\ req' = [req EXCEPT ![r].pc = "load"]
    /\ UNCHANGED <<workload, cancelled, segVars, pageVars, dateVars, ruleVars, enrichVars>>

\* pdfjsLib.getDocument has settled inside parse
LoadSettles(r) ==
    LET doc == workload[r]
    IN  /\ req[r].pc = "load"
        /\ IF ~doc.decodes
           THEN /\ posted' = [posted EXCEPT ![r] =
                                 Append(@, ParseFailed("InvalidPDFException"))]
                /\ req' = [req EXCEPT ![r].pc = "done"]
           ELSE /\ posted' = [posted EXCEPT ![r] = @ \o
                      << ParserProgress(200), AfterPage(1, Len(doc.pages)) >>]
                /\ req' = [req EXCEPT ![r] =
                      [IdleLocals EXCEPT !.pageNum = 1,
                                         !.pc = IF Len(doc.pages) >= 1
                                                THEN "page" ELSE "parsed"]]
        /\ UNCHANGED <<workload, cancelled, segVars, pageVars, dateVars, ruleVars, enrichVars>>

\* getPage and getTextContent of the current page have settled
PageSettles(r) ==
    LET doc  == workload[r]
        page == doc.pages[req[r].pageNum]
    IN  /\ req[r].pc = "page"
        /\ IF ~page.ok
           THEN /\ posted' = [posted EXCEPT ![r] =
                                 Append(@, ParseFailed("page could not be read"))]
                /\ req' = [req EXCEPT ![r].pc = "done"]
           ELSE \E next \in {ProcessPage(req[r], page)} :
                  IF next = None
                  THEN /\ posted' = [posted EXCEPT ![r] =
                                 Append(@, ParseFailed("Invalid date format"))]
                       /\ req' = [req EXCEPT ![r].pc = "done"]
                  ELSE /\ posted' = [posted EXCEPT ![r] =
                             Append(@, AfterPage(next[1].pageNum, Len(doc.pages)))]
                       /\ req' = [req EXCEPT ![r] =
                             [next[1] EXCEPT !.pc =
                                 IF next[1].pageNum <= Len(doc.pages)
                                 THEN "page" ELSE "parsed"]]
        /\ UNCHANGED <<workload, cancelled, segVars, pageVars, dateVars, ruleVars, enrichVars>>

\* handleParse posting the result before the last progress message
ParseResolvesResultFirst(r) ==
    /\ req[r].pc = "parsed"
    /\ posted' = [posted EXCEPT ![r] = @ \o
          << [kind |-> "complete",
              result |-> [bank |-> "ICICI",
                          transactions |-> req[r].transactions,
                          warnings |-> req[r].warnings]],
             Progress(100) >>]
    /\ req' = [req EXCEPT ![r].pc = "done"]
    /\ UNCHANGED <<workload, cancelled, segVars, pageVars, dateVars, ruleVars, enrichVars>>

\* parse has resolved: handleParse posts the result
ParseResolves(r) ==
    /\ req[r].pc = "parsed"
    /\ posted' = [posted EXCEPT ![r] = @ \o
          << Progress(100),
             [kind |-> "complete",
              result |-> [bank |-> "ICICI",
                          transactions |-> req[r].transactions,
                          warnings |-> req[r].warnings]] >>]
    /\ req' = [req EXCEPT ![r].pc = "done"]
    /\ UNCHANGED <<workload, cancelled, segVars, pageVars, dateVars, ruleVars, enrichVars>>

WorkerNext ==
    \/ OnMessageCancel
    \/ \E r \in Requests :
          \/ OnMessageParse(r)
          \/ GetParsersResolves(r)
          \/ CanParseSettles(r)
          \/ LoadSettles(r)
          \/ PageSettles(r)
          \/ ParseResolves(r)

WorkerIdle ==
    /\ cancelled = FALSE
    /\ req = [r \in Requests |-> IdleLocals]
    /\ posted = [r \in Requests |-> <<>>]

SegIdle ==
    /\ rows = <<>>
    /\ rowIndex = 1
    /\ currentTransaction = None
    /\ transactions = <<>>

-----------------------------------------------------------------------------
(* The documents the host submits *)

MaxPages == 2

\* a page whose text could be read: the account banner, one full record
GoodPage ==
    [ok |-> TRUE,
     rows |-> << << <<"A","c","c","o","u","n","t"," ","N","u","m","b","e","r",":"," ","1","2","3","4">> >>,
                 << <<"1","5","-","0","3","-","2","0","2","4">>,
                    <<"U","P","I","/","N","E","T","F","L","I","X","/","1","2","3">>,
                    <<"1","9","9",".","0","0">>, <<"D","R">> >> >>]

\* a page whose getPage or getTextContent rejects
UnreadablePage == [ok |-> FALSE, rows |-> <<>>]

\* a record whose date has the DD-MM-YYYY shape and is no date, then a
\* regular record
BadDatePage ==
    [ok |-> TRUE,
     rows |-> << << <<"3","2","-","0","1","-","2","0","2","4">>,
                    <<"U","P","I","/","N","E","T","F","L","I","X","/","1","2","3">>,
                    <<"4","5","0">> >>,
                 << <<"1","6","/","0","3","/","2","0","2","4">>,
                    <<"U","P","I","/","S","W","I","G","G","Y","/","p","a","y","t","m">>,
                    <<"1",",","2","3","4",".","5","6">>, <<"C","R">> >> >>]

\* a record without an amount, then a regular record; the bank's name
MissingAmountPage ==
    [ok |-> TRUE,
     rows |-> << << <<"I","C","I","C","I"," ","B","a","n","k">> >>,
                 << <<"1","6","/","0","3","/","2","0","2","4">>,
                    <<"U","P","I","/","S","W","I","G","G","Y","/","p","a","y","t","m">> >>,
                 << <<"1","5","-","0","3","-","2","0","2","4">>,
                    <<"U","P","I","/","N","E","T","F","L","I","X","/","1","2","3">>,
                    <<"1","9","9",".","0","0">>, <<"D","R">> >> >>]

FileNames == { <<"i","c","i","c","i",".","p","d","f">>,
               <<"s","t","a","t","e","m","e","n","t",".","p","d","f">> }

Documents(pageSet) ==
    [fileName : FileNames, decodes : {FALSE}, pages : {<<>>}]
    \cup [fileName : FileNames, decodes : {TRUE},
          pages : SeqsUpTo(pageSet, MaxPages)]

-----------------------------------------------------------------------------
(* The ML pipeline: base.ts and MLTransactionPipeline *)

Max(a, b) == IF a > b THEN a ELSE b

\* scores in thousandths
DEFAULT_ML_CONFIG ==
    [useML |-> TRUE, confidenceThreshold |-> 700, fallbackToRules |-> TRUE]

createMLConfidence(score, source) ==
    [score |-> Max(0, Min(1000, score)), source |-> source]

shouldUseMlResultStrict(confidence, threshold) == confidence.score > threshold

shouldUseMlResult(confidence, threshold) == confidence.score >= threshold

\* MLTransactionPipeline.isReady over the readiness of the three services
isReady(p) == p.preprocessor /\ p.classifier /\ p.merchantExtractor

\* TransactionTextPreprocessor.preprocess: nlp is what the tokenizer made of
\* the description, None when it throws; the result is None when preprocess
\* throws its MLServiceError.  Only the features the pipeline reads are kept.
preprocess(description, amount, type, nlp) ==
    IF nlp = None THEN None
    ELSE Some([originalDescription |-> description,
               amount |-> amount,
               type |-> type,
               features |->
                 [is_medium_amount |->
                      IF amount >= 10000 /\ amount <= 500000 THEN 1 ELSE 0,
                  is_round_amount |-> IF amount % 10000 = 0 THEN 1 ELSE 0,
                  has_service_keywords |->
                      IF nlp[1].service THEN 1 ELSE 0,
                  has_entertainment_keywords |->
                      IF nlp[1].entertainment THEN 1 ELSE 0]])

fallbackMerchantExtraction(description) ==
    LET merchant == extractMerchant(description)
    IN  [merchant |-> merchant,
         normalizedMerchant |-> normalizeMerchantName(merchant),
         confidence |-> createMLConfidence(
                            IF merchant = Unknown THEN 300 ELSE 600, "rules"),
         extractionMethod |-> IF merchant = Unknown THEN "fallback"
                              ELSE "pattern"]

fallbackClassification(description, amount) ==
    LET merchant == fallbackMerchantExtraction(description).merchant
        result == categorizeTransaction(description, merchant, amount)
    IN  [category |-> result.category,
         subcategory |-> result.subcategory,
         confidence |-> createMLConfidence(
                            IF result.category = Others THEN 400 ELSE 700,
                            "rules"),
         alternativeCategories |-> None]

\* outcome is what merchantExtractor.extractMerchant settled with: None when
\* it rejected, else the prediction.  The try block returns the ML result,
\* throws, or falls through; the catch only logs.
extractMerchantWithFallback(p, description, outcome) ==
    LET tried == p.config.useML /\ p.merchantExtractor
        usesML == /\ tried
                  /\ outcome /= None
                  /\ shouldUseMlResult(
                         [score |-> outcome[1].confidence, source |-> "ml"],
                         p.config.confidenceThreshold)
    IN  IF usesML
        THEN [merchant |-> outcome[1].merchant,
              normalizedMerchant |-> outcome[1].normalizedMerchant,
              confidence |-> createMLConfidence(outcome[1].confidence, "ml"),
              extractionMethod |-> outcome[1].extractionMethod]
        ELSE IF p.config.fallbackToRules
        THEN fallbackMerchantExtraction(description)
        ELSE [merchant |-> Unknown,
              normalizedMerchant |-> Unknown,
              confidence |-> createMLConfidence(100, "rules"),
              extractionMethod |-> "fallback"]

\* outcome is what classifier.classify settled with
classifyWithFallback(p, description, amount, outcome) ==
    LET tried == p.config.useML /\ p.classifier
        usesML == /\ tried
                  /\ outcome /= None
                  /\ shouldUseMlResult(
                         [score |-> outcome[1].confidence, source |-> "ml"],
                         p.config.confidenceThreshold)
    IN  IF usesML
        THEN [category |-> outcome[1].category,
              subcategory |-> outcome[1].subcategory,
              confidence |-> createMLConfidence(outcome[1].confidence, "ml"),
              alternativeCategories |-> outcome[1].alternatives]
        ELSE IF p.config.fallbackToRules
        THEN fallbackClassification(description, amount)
        ELSE [category |-> Others,
              subcategory |-> None,
              confidence |-> createMLConfidence(300, "rules"),
              alternativeCategories |-> None]

determineRecurring(preprocessed, categoryResult) ==
    LET features == preprocessed.features
    IN  IF features.has_entertainment_keywords /= 0
             /\ features.is_round_amount /= 0 THEN TRUE
        ELSE IF features.has_service_keywords /= 0
             /\ features.is_medium_amount /= 0 THEN TRUE
        ELSE IF categoryResult.category \in {<<"U","t","i","l","i","t","i","e","s">>, <<"F","i","n","a","n","c","e">>} THEN TRUE
        ELSE IF categoryResult.category = <<"E","n","t","e","r","t","a","i","n","m","e","n","t">>
             /\ categoryResult.subcategory = Some(<<"S","t","r","e","a","m","i","n","g"," ","S","e","r","v","i","c","e","s">>)
        THEN TRUE
        ELSE FALSE

isTransactionRecurring(description, category) ==
    LET desc == toLowerCase(description)
    IN  \/ \E keyword \in {<<"m","o","n","t","h","l","y">>, <<"s","u","b","s","c","r","i","p","t","i","o","n">>, <<"e","m","i">>, <<"l","o","a","n">>,
                           <<"n","e","t","f","l","i","x">>, <<"p","r","i","m","e">>} : includes(desc, keyword)
        \/ category \in {<<"U","t","i","l","i","t","i","e","s">>, <<"F","i","n","a","n","c","e">>}

\* amounts in hundredths
generateEnhancedTags(description, merchant, category, amount, paymentMethod) ==
    AddTags(generateTags(description, merchant, category, amount),
      << <<TRUE, <<"m","l","-","e","n","h","a","n","c","e","d">>>>,
         <<paymentMethod = <<"U","P","I">>, <<"d","i","g","i","t","a","l","-","p","a","y","m","e","n","t">>>>,
         <<paymentMethod = <<"C","a","r","d">>, <<"c","a","r","d","-","p","a","y","m","e","n","t">>>>,
         <<amount > 1000000, <<"h","i","g","h","-","v","a","l","u","e">>>>,
         <<amount % 10000 = 0 /\ amount >= 100000, <<"r","o","u","n","d","-","a","m","o","u","n","t","-","l","a","r","g","e">>>>,
         <<merchant /= Unknown /\ Len(merchant) > 2,
           <<"m","e","r","c","h","a","n","t","-","i","d","e","n","t","i","f","i","e","d">>>> >>)

\* the weights of calculateOverallConfidence, in tenths
merchantWeight == 4

categoryWeight == 6

FusedSource(merchantConfidence, categoryConfidence) ==
    IF merchantConfidence.source = "ml" /\ categoryConfidence.source = "ml"
    THEN "ml"
    ELSE IF merchantConfidence.source = "rules"
              /\ categoryConfidence.source = "rules"
    THEN "rules"
    ELSE "hybrid"

calculateOverallConfidenceSwapped(merchantConfidence, categoryConfidence) ==
    createMLConfidence(
        (merchantConfidence.score * categoryWeight
           + categoryConfidence.score * merchantWeight) \div 10,
        FusedSource(merchantConfidence, categoryConfidence))

calculateOverallConfidenceRulesUnlessML(merchantConfidence, categoryConfidence) ==
    createMLConfidence(
        (merchantConfidence.score * merchantWeight
           + categoryConfidence.score * categoryWeight) \div 10,
        IF merchantConfidence.source = "ml" /\ categoryConfidence.source = "ml"
        THEN "ml" ELSE "rules")

calculateOverallConfidence(merchantConfidence, categoryConfidence) ==
    createMLConfidence(
        (merchantConfidence.score * merchantWeight
           + categoryConfidence.score * categoryWeight) \div 10,
        FusedSource(merchantConfidence, categoryConfidence))

fallbackToRulesFused(description, amount, type) ==
    LET merchantResult == fallbackMerchantExtraction(description)
        categoryResult == fallbackClassification(description, amount)
    IN  [category |-> categoryResult,
         merchant |-> merchantResult,
         paymentMethod |-> determinePaymentMethod(description),
         isRecurring |->
             isTransactionRecurring(description, categoryResult.category),
         tags |-> generateTags(description, merchantResult.merchant,
                               categoryResult.category, amount),
         notes |-> extractNotes(description),
         confidence |-> calculateOverallConfidence(merchantResult.confidence,
                                                   categoryResult.confidence)]

fallbackToRules(description, amount, type) ==
    LET merchantResult == fallbackMerchantExtraction(description)
        categoryResult == fallbackClassification(description, amount)
    IN  [category |-> categoryResult,
         merchant |-> merchantResult,
         paymentMethod |-> determinePaymentMethod(description),
         isRecurring |->
             isTransactionRecurring(description, categoryResult.category),
         tags |-> generateTags(description, merchantResult.merchant,
                               categoryResult.category, amount),
         notes |-> extractNotes(description),
         confidence |-> createMLConfidence(600, "rules")]

\* a promise of enrichTransaction
Pending == [status |-> "pending", value |-> None]

Resolved(v) == [status |-> "resolved", value |-> Some(v)]

Rejected == [status |-> "rejected", value |-> None]

enrichTransactionRethrows(description, amount, type) == Rejected

\* the catch block of enrichTransaction
enrichTransactionCatch(description, amount, type) ==
    Resolved(fallbackToRules(description, amount, type))

\* enrichTransaction up to its await: the readiness test and preprocessing
enrichTransactionStart(p, description, amount, type, nlp) ==
    IF ~isReady(p) THEN Resolved(fallbackToRules(description, amount, type))
    ELSE IF preprocess(description, amount, type, nlp) = None
    THEN enrichTransactionCatch(description, amount, type)
    ELSE Pending

\* enrichTransaction after Promise.all has resolved
enrichTransactionFinish(c, merchantResult, categoryResult) ==
    LET preprocessed == preprocess(c.description, c.amount, c.type, c.nlp)[1]
        paymentMethod == determinePaymentMethod(c.description)
    IN  Resolved(
          [category |-> categoryResult,
           merchant |-> merchantResult,
           paymentMethod |-> paymentMethod,
           isRecurring |-> determineRecurring(preprocessed, categoryResult),
           tags |-> generateEnhancedTags(c.description,
                        merchantResult.merchant, categoryResult.category,
                        c.amount, paymentMethod),
           notes |-> extractNotes(c.description),
           confidence |-> calculateOverallConfidence(
                              merchantResult.confidence,
                              categoryResult.confidence)])

-----------------------------------------------------------------------------
(* One enrichTransaction call on a pipeline built with any configuration *)

\* new MLTransactionPipeline(config): the three services are ready as soon
\* as they are constructed
NewPipeline(config) ==
    [config |-> config,
     preprocessor |-> TRUE,
     classifier |-> TRUE,
     merchantExtractor |-> TRUE]

NotRun == [ran |-> FALSE, outcome |-> None]

EnrichIdle ==
    /\ pipeline = NewPipeline(DEFAULT_ML_CONFIG)
    /\ call = None
    /\ merchantStage = NotRun
    /\ classifierStage = NotRun
    /\ mlMerchantResult = None
    /\ mlCategoryResult = None
    /\ enrichment = Pending

Configs ==
    [useML : BOOLEAN, confidenceThreshold : {700, 900},
     fallbackToRules : BOOLEAN]

Descriptions ==
    { <<"U","P","I","/","N","E","T","F","L","I","X","/","1","2","3">>,
      <<"U","P","I","/","S","W","I","G","G","Y","/","p","a","y","t","m">>,
      <<"A","T","M"," ","C","A","S","H"," ","W","I","T","H","D","R","A","W","A","L"," ","0","1","2","3","4","5","6","7","8","9">>,
      <<"N","E","F","T","/","H","D","F","C","/","J","O","H","N"," ","D","O","E","/","I","C","I","6","d","c","2","e">> }

\* 199.00, 5000.00 and 15000.00
Amounts == {19900, 500000, 1500000}

\* what the tokenizer makes of a description: it throws, or the tokens do or
\* do not hold the service and entertainment keywords
NlpOutcomes ==
    { None,
      Some([service |-> FALSE, entertainment |-> FALSE]),
      Some([service |-> TRUE, entertainment |-> TRUE]) }

MLScores == {500, 700, 900}

\* merchantExtractor.extractMerchant rejects or resolves to a prediction
MerchantOutcomes ==
    {None} \cup
    { Some([merchant |-> <<"A","m","a","z","o","n">>,
            normalizedMerchant |-> <<"A","m","a","z","o","n">>,
            confidence |-> c,
            extractionMethod |-> "pattern"]) : c \in MLScores }

\* classifier.classify rejects or resolves to a prediction
ClassifierOutcomes ==
    {None} \cup
    { Some([category |-> <<"S","h","o","p","p","i","n","g">>,
            subcategory |-> Some(<<"O","n","l","i","n","e"," ","S","h","o","p","p","i","n","g">>),
            confidence |-> c,
            alternatives |-> None]) : c \in MLScores }

\* enrichTransaction is called and runs up to Promise.all
EnrichTransaction(description, amount, type, nlp) ==
    /\ call = None
    /\ call' = Some([description |-> description, amount |-> amount,
                     type |-> type, nlp |-> nlp])
    /\ enrichment' =
           enrichTransactionStart(pipeline, description, amount, type, nlp)
    /\ UNCHANGED <<pipeline, merchantStage, classifierStage,
                   mlMerchantResult, mlCategoryResult, segVars, pageVars, dateVars, ruleVars, workerVars>>

\* extractMerchantWithFallback settles; the extractor is only called when
\* ML is enabled and the extractor is ready
MerchantExtractorSettles(outcome) ==
    /\ call /= None
    /\ enrichment = Pending
    /\ mlMerchantResult = None
    /\ \E tried \in {pipeline.config.useML /\ pipeline.merchantExtractor} :
        /\ tried \/ outcome = None
        /\ merchantStage' = [ran |-> tried, outcome |-> outcome]
    /\ mlMerchantResult' =
           Some(extractMerchantWithFallback(pipeline, call[1].description,
                                            outcome))
    /\ UNCHANGED <<pipeline, call, classifierStage, mlCategoryResult,
                   enrichment, segVars, pageVars, dateVars, ruleVars, workerVars>>

\* classifyWithFallback settles
ClassifierSettles(outcome) ==
    /\ call /= None
    /\ enrichment = Pending
    /\ mlCategoryResult = None
    /\ \E tried \in {pipeline.config.useML /\ pipeline.classifier} :
        /\ tried \/ outcome = None
        /\ classifierStage' = [ran |-> tried, outcome |-> outcome]
    /\ mlCategoryResult' =
           Some(classifyWithFallback(pipeline, call[1].description,
                                     call[1].amount, outcome))
    /\ UNCHANGED <<pipeline, call, merchantStage, mlMerchantResult,
                   enrichment, segVars, pageVars, dateVars, ruleVars, workerVars>>

\* Promise.all has resolved and enrichTransaction returns
EnrichTransactionResolves ==
    /\ call /= None
    /\ enrichment = Pending
    /\ mlMerchantResult /= None
    /\ mlCategoryResult /= None
    /\ enrichment' = enrichTransactionFinish(call[1], mlMerchantResult[1],
                                             mlCategoryResult[1])
    /\ UNCHANGED <<pipeline, call, merchantStage, classifierStage,
                   mlMerchantResult, mlCategoryResult, segVars, pageVars, dateVars, ruleVars, workerVars>>

EnrichInit ==
    /\ pipeline \in {NewPipeline(config) : config \in Configs}
    /\ call = None
    /\ merchantStage = NotRun
    /\ classifierStage = NotRun
    /\ mlMerchantResult = None
    /\ mlCategoryResult = None
    /\ enrichment = Pending
    /\ workload = <<>>
    /\ WorkerIdle
    /\ PageIdle
    /\ DateIdle
    /\ RuleIdle
    /\ SegIdle

EnrichNext ==
    \/ \E description \in Descriptions, amount \in Amounts,
          type \in {"debit", "credit"}, nlp \in NlpOutcomes :
            EnrichTransaction(description, amount, type, nlp)
    \/ \E outcome \in MerchantOutcomes : MerchantExtractorSettles(outcome)
    \/ \E outcome \in ClassifierOutcomes : ClassifierSettles(outcome)
    \/ EnrichTransactionResolves

EnrichSpec == EnrichInit /\ [][EnrichNext]_vars

-----------------------------------------------------------------------------
(* The segmenter, one row at a time *)

SegInit ==
    /\ rows \in Pages
    /\ rowIndex = 1
    /\ currentTransaction = None
    /\ transactions = <<>>
    /\ workload = <<>>
    /\ WorkerIdle
    /\ PageIdle
    /\ DateIdle
    /\ RuleIdle
    /\ EnrichIdle

SegState == [cur |-> currentTransaction, out |-> transactions]

\* a row that holds a date: finalize the open record, open a new one
SegDateRow ==
    /\ rowIndex <= Len(rows)
    /\ dateIndex(rowText(rows[rowIndex])) /= 0
    /\ \E next \in {SegmentRow(SegState, rows[rowIndex])} :
          /\ currentTransaction' = next.cur
          /\ transactions' = next.out
    /\ rowIndex' = rowIndex + 1
    /\ UNCHANGED <<rows, workerVars, enrichVars, pageVars, dateVars, ruleVars>>

\* a row without a date while a record is open: extend the record
SegContinuationRow ==
    /\ rowIndex <= Len(rows)
    /\ Len(rowText(rows[rowIndex])) > 0
    /\ dateIndex(rowText(rows[rowIndex])) = 0
    /\ currentTransaction /= None
    /\ \E next \in {SegmentRow(SegState, rows[rowIndex])} :
          /\ currentTransaction' = next.cur
          /\ transactions' = next.out
    /\ rowIndex' = rowIndex + 1
    /\ UNCHANGED <<rows, workerVars, enrichVars, pageVars, dateVars, ruleVars>>

\* an empty row, or a row without a date before any record is open
SegSkipRow ==
    /\ rowIndex <= Len(rows)
    /\ IF Len(rowText(rows[rowIndex])) = 0 THEN TRUE
       ELSE dateIndex(rowText(rows[rowIndex])) = 0 /\ currentTransaction = None
    /\ \E next \in {SegmentRow(SegState, rows[rowIndex])} :
          /\ currentTransaction' = next.cur
          /\ transactions' = next.out
    /\ rowIndex' = rowIndex + 1
    /\ UNCHANGED <<rows, workerVars, enrichVars, pageVars, dateVars, ruleVars>>

\* end of page: finalize the record that is still open
SegEndOfPage ==
    /\ rowIndex = Len(rows) + 1
    /\ transactions' = Finalize(currentTransaction, transactions)
    /\ currentTransaction' = None
    /\ rowIndex' = rowIndex + 1
    /\ UNCHANGED <<rows, workerVars, enrichVars, pageVars, dateVars, ruleVars>>

SegNext == SegDateRow \/ SegContinuationRow \/ SegSkipRow \/ SegEndOfPage

SegSpec == SegInit /\ [][SegNext]_vars

-----------------------------------------------------------------------------
(* The worker under a workload of up to two files *)

Init ==
    /\ workload \in SeqsUpTo(Documents({GoodPage, UnreadablePage}), 2)
    /\ WorkerIdle
    /\ PageIdle
    /\ DateIdle
    /\ RuleIdle
    /\ SegIdle
    /\ EnrichIdle

Next == WorkerNext

Spec == Init /\ [][Next]_vars

(* One parse request over the full set of documents *)

ParseInit ==
    /\ workload \in {<<d>> : d \in Documents({GoodPage, UnreadablePage,
                                              BadDatePage, MissingAmountPage})}
    /\ WorkerIdle
    /\ PageIdle
    /\ DateIdle
    /\ RuleIdle
    /\ SegIdle
    /\ EnrichIdle

ParseSpec == ParseInit /\ [][Next]_vars

-----------------------------------------------------------------------------
(* Properties of the segmenter *)

\* the next step finalizes the open record: the row holds a date, or the
\* page has ended
SegFinalizes ==
    \/ rowIndex = Len(rows) + 1
    \/ /\ rowIndex <= Len(rows)
       /\ dateIndex(rowText(rows[rowIndex])) /= 0

\* the open record lacks a date or an amount
OpenRecordLacksField ==
    /\ currentTransaction /= None
    /\ \/ Len(currentTransaction[1].date) = 0
       \/ currentTransaction[1].amount = None

\* C1: every record the segmenter emits has a recognized date and a
\* recognized amount, and an open record that lacks either when it is
\* finalized (by the next date row or by the end of the page) is not emitted.
C1_EmittedRecordsComplete ==
    /\ [](\A i \in 1..Len(transactions) :
             /\ datePattern(transactions[i].date)
             /\ transactions[i].amount /= None)
    /\ [][(SegFinalizes /\ OpenRecordLacksField) => transactions' = transactions]_vars

\* a page was scanned to its end on which a record without an amount was
\* finalized by the next date row or by the end of the page, and another
\* record was emitted
C1_Witness ==
    /\ rowIndex = Len(rows) + 2
    /\ Len(transactions) >= 1
    /\ \E i \in 1..Len(rows) :
          LET texts == rowText(rows[i])
          IN  /\ dateIndex(texts) /= 0
              /\ StartTransaction(texts, dateIndex(texts)).amount = None
              /\ \/ i = Len(rows)
                 \/ dateIndex(rowText(rows[i + 1])) /= 0

-----------------------------------------------------------------------------
(* Properties of a parse request *)

Submitted == {r \in Requests : r <= Len(workload)}

IsProgress(m) == m.kind = "progress"

IsError(m) == m.kind = "error"

IsComplete_(m) == m.kind = "complete"

ProgressValues(r) ==
    LET p == SelectSeq(posted[r], IsProgress)
    IN  [i \in 1..Len(p) |-> p[i].progressPercent]

Errors(r) == SelectSeq(posted[r], IsError)

Completes(r) == SelectSeq(posted[r], IsComplete_)

AllPagesReadable(doc) == \A i \in 1..Len(doc.pages) : doc.pages[i].ok

\* the records of a page that convert: those whose date parseDate accepts
RECURSIVE ConvertibleRecords(_)
ConvertibleRecords(records) ==
    IF records = <<>> THEN <<>>
    ELSE IF parseDate(Head(records).date) /= None
         THEN <<Head(records)>> \o ConvertibleRecords(Tail(records))
         ELSE ConvertibleRecords(Tail(records))

RECURSIVE ConvertibleCount(_)
\* over the readable pages, the number of records that convert
ConvertibleCount(pages) ==
    IF pages = <<>> THEN 0
    ELSE (IF Head(pages).ok
          THEN Len(ConvertibleRecords(SegmentPage(Head(pages).rows)))
          ELSE 0)
         + ConvertibleCount(Tail(pages))

\* C2: a record whose date has the DD-MM-YYYY shape and is no date, or that
\* has no amount, is dropped without aborting: a request on a document that
\* decodes and whose pages can all be read ends with a complete message that
\* carries every other transaction of the document.
C2_AnomalyDropsOnlyTheRecord ==
    \A r \in Submitted :
        (/\ req[r].pc = "done"
         /\ canParse(workload[r])
         /\ workload[r].decodes
         /\ AllPagesReadable(workload[r]))
        => /\ Len(Completes(r)) = 1
           /\ Len(Completes(r)[1].result.transactions)
                 = ConvertibleCount(workload[r].pages)

\* C3: when the document does not decode, no complete message is ever
\* posted for the request and at most one error message; once the request
\* has ended, exactly one error message was posted, it is the last message,
\* and when parse was called it is parse's single rejection.
C3_DecodeFailureIsOneError ==
    \A r \in Submitted :
        ~workload[r].decodes
        => /\ Len(Completes(r)) = 0
           /\ Len(Errors(r)) <= 1
           /\ req[r].pc = "done"
                 => /\ Len(Errors(r)) = 1
                    /\ IsError(posted[r][Len(posted[r])])
                    /\ canParse(workload[r])
                          => Errors(r)[1] = ParseFailed("InvalidPDFException")

\* a request for a file the adapter accepts by its name, whose bytes do not
\* decode, has ended
C3_Witness ==
    \E r \in Submitted :
        /\ ~workload[r].decodes
        /\ canParse(workload[r])
        /\ req[r].pc = "done"

\* C4: when the document decodes and the extraction of a page fails, parse
\* records a warning for that page and the request still completes with the
\* transactions of the other pages.
C4_PageFailureIsAWarning ==
    \A r \in Submitted :
        (/\ req[r].pc = "done"
         /\ canParse(workload[r])
         /\ workload[r].decodes
         /\ ~AllPagesReadable(workload[r]))
        => /\ Len(Completes(r)) = 1
           /\ Len(Completes(r)[1].result.warnings) >= 1
           /\ Len(Completes(r)[1].result.transactions)
                 >= ConvertibleCount(workload[r].pages)

\* C10: the progress values posted for a request are within 0..100 and
\* non-decreasing, and once the request has ended, whatever its outcome,
\* the last progress value posted is 100.
C10_ProgressEndsAt100 ==
    \A r \in Submitted :
        LET p == ProgressValues(r)
        IN  /\ \A i \in 1..Len(p) : p[i] >= 0 /\ p[i] <= 100
            /\ \A i \in 1..(Len(p) - 1) : p[i] <= p[i + 1]
            /\ req[r].pc = "done" => (Len(p) > 0 /\ p[Len(p)] = 100)

-----------------------------------------------------------------------------
(* Properties of an enrichTransaction call *)

EnrichResolved == enrichment.status = "resolved"

\* the call reached Promise.all: preprocessing returned
ReachedStages == call /= None /\ call[1].nlp /= None /\ isReady(pipeline)

MerchantThrew == merchantStage.ran /\ merchantStage.outcome = None

ClassifierThrew == classifierStage.ran /\ classifierStage.outcome = None

Populated(e) ==
    /\ Len(e.category.category) > 0
    /\ e.category.confidence.source \in {"ml", "rules"}
    /\ Len(e.merchant.merchant) > 0
    /\ Len(e.merchant.normalizedMerchant) > 0
    /\ Len(e.paymentMethod) > 0
    /\ e.isRecurring \in BOOLEAN
    /\ Len(e.tags) > 0
    /\ e.confidence.score \in 0..1000
    /\ e.confidence.source \in {"ml", "rules", "hybrid"}

\* C5: enrichTransaction never rejects, whichever of preprocessing, merchant
\* extraction or classification throws, and the enrichment it resolves to
\* has its category, merchant, paymentMethod, isRecurring, tags and
\* confidence populated.
C5_EnrichTransactionNeverRejects ==
    /\ enrichment.status /= "rejected"
    /\ EnrichResolved => Populated(enrichment.value[1])
    /\ (call /= None /\ call[1].nlp = None) => EnrichResolved

\* a call has resolved in which both the merchant extractor and the
\* classifier threw
C5_Witness == EnrichResolved /\ MerchantThrew /\ ClassifierThrew

\* C6 as stated: when the classifier throws, the enrichment is complete and
\* the source of its overall confidence is "rules".
C6_ClassifierThrowGivesRulesSource ==
    (EnrichResolved /\ ClassifierThrew)
    => /\ Populated(enrichment.value[1])
       /\ enrichment.value[1].confidence.source = "rules"

\* C6: when the classifier throws, the enrichment is complete, the source
\* of its category confidence is "rules", and the source of its overall
\* confidence is "hybrid" when the merchant came from ML and "rules"
\* otherwise; it is never "ml".
C6_ClassifierThrowGivesRulesCategory ==
    (EnrichResolved /\ ClassifierThrew)
    => /\ Populated(enrichment.value[1])
       /\ enrichment.value[1].category.confidence.source = "rules"
       /\ enrichment.value[1].confidence.source =
              IF enrichment.value[1].merchant.confidence.source = "ml"
              THEN "hybrid" ELSE "rules"

\* the classifier threw, the merchant extractor's prediction was accepted,
\* and the call has resolved
C6_Witness ==
    /\ EnrichResolved
    /\ ClassifierThrew
    /\ enrichment.value[1].merchant.confidence.source = "ml"

\* the ML stage of a concern ran, did not throw, and its confidence meets
\* the configured threshold
MeetsThreshold(stage) ==
    /\ pipeline.config.useML
    /\ stage.ran
    /\ stage.outcome /= None
    /\ stage.outcome[1].confidence >= pipeline.config.confidenceThreshold

IsMLMerchant(result, prediction) ==
    /\ result.merchant = prediction.merchant
    /\ result.normalizedMerchant = prediction.normalizedMerchant
    /\ result.extractionMethod = prediction.extractionMethod
    /\ result.confidence = [score |-> prediction.confidence, source |-> "ml"]

IsMLCategory(result, prediction) ==
    /\ result.category = prediction.category
    /\ result.subcategory = prediction.subcategory
    /\ result.confidence = [score |-> prediction.confidence, source |-> "ml"]

\* the results of the two concerns are the ones the enrichment carries
CarriesStageResults ==
    (EnrichResolved /\ ReachedStages)
    => /\ enrichment.value[1].merchant = mlMerchantResult[1]
       /\ enrichment.value[1].category = mlCategoryResult[1]

\* C7 as stated: each concern takes the ML result exactly when ML is
\* enabled, the stage did not throw and its confidence meets the threshold,
\* and the rule-based result in every other case.
C7_EachConcernMLOrRules ==
    /\ mlMerchantResult /= None
       => IF MeetsThreshold(merchantStage)
          THEN IsMLMerchant(mlMerchantResult[1], merchantStage.outcome[1])
          ELSE mlMerchantResult[1]
                   = fallbackMerchantExtraction(call[1].description)
    /\ mlCategoryResult /= None
       => IF MeetsThreshold(classifierStage)
          THEN IsMLCategory(mlCategoryResult[1], classifierStage.outcome[1])
          ELSE mlCategoryResult[1]
                   = fallbackClassification(call[1].description,
                                            call[1].amount)
    /\ CarriesStageResults

\* C7: in a call that reaches the two stages, each concern takes the ML
\* result exactly when ML is enabled, the stage did not throw and its
\* confidence meets the threshold; in every other case it takes the
\* rule-based result when fallbackToRules is set, and otherwise a fixed
\* placeholder (merchant Unknown with score 0.1, category Others with score
\* 0.3, source "rules"), whatever happened to the other concern.
C7_EachConcernMLOrFallback ==
    /\ mlMerchantResult /= None
       => IF MeetsThreshold(merchantStage)
          THEN IsMLMerchant(mlMerchantResult[1], merchantStage.outcome[1])
          ELSE IF pipeline.config.fallbackToRules
          THEN mlMerchantResult[1]
                   = fallbackMerchantExtraction(call[1].description)
          ELSE mlMerchantResult[1]
                   = [merchant |-> Unknown,
                      normalizedMerchant |-> Unknown,
                      confidence |-> [score |-> 100, source |-> "rules"],
                      extractionMethod |-> "fallback"]
    /\ mlCategoryResult /= None
       => IF MeetsThreshold(classifierStage)
          THEN IsMLCategory(mlCategoryResult[1], classifierStage.outcome[1])
          ELSE IF pipeline.config.fallbackToRules
          THEN mlCategoryResult[1]
                   = fallbackClassification(call[1].description,
                                            call[1].amount)
          ELSE mlCategoryResult[1]
                   = [category |-> Others,
                      subcategory |-> None,
                      confidence |-> [score |-> 300, source |-> "rules"],
                      alternativeCategories |-> None]
    /\ CarriesStageResults

\* a call has resolved whose merchant came from ML, at a confidence equal
\* to the threshold, and whose category came from the rules because the
\* classifier's confidence was below the threshold
C7_Witness ==
    /\ EnrichResolved
    /\ MeetsThreshold(merchantStage)
    /\ merchantStage.outcome[1].confidence
           = pipeline.config.confidenceThreshold
    /\ classifierStage.outcome /= None
    /\ ~MeetsThreshold(classifierStage)
    /\ pipeline.config.fallbackToRules
    /\ enrichment.value[1].merchant.confidence.source = "ml"
    /\ enrichment.value[1].category.confidence.source = "rules"

\* C8: on the non-degraded path the overall confidence score is
\* 0.4 x merchant score + 0.6 x category score and lies within [0,1]; its
\* source is "ml" exactly when both components are "ml", "rules" exactly
\* when both are "rules", and "hybrid" otherwise.
C8_OverallConfidenceIsWeighted ==
    (EnrichResolved /\ ReachedStages)
    => LET e == enrichment.value[1]
           m == e.merchant.confidence
           c == e.category.confidence
       IN  /\ 10 * e.confidence.score = 4 * m.score + 6 * c.score
           /\ e.confidence.score >= 0
           /\ e.confidence.score <= 1000
           /\ e.confidence.source = "ml"
                 <=> (m.source = "ml" /\ c.source = "ml")
           /\ e.confidence.source = "rules"
                 <=> (m.source = "rules" /\ c.source = "rules")
           /\ e.confidence.source = "hybrid"
                 <=> (m.source /= c.source)

\* a call has resolved on the non-degraded path with an ML merchant of
\* score 0.9 and a rule-based category
C8_Witness ==
    /\ EnrichResolved
    /\ ReachedStages
    /\ enrichment.value[1].merchant.confidence
           = [score |-> 900, source |-> "ml"]
    /\ enrichment.value[1].category.confidence.source = "rules"
    /\ enrichment.value[1].confidence.source = "hybrid"

\* the pipeline with the readiness of its services set to ready
WithReadiness(p, ready) ==
    [p EXCEPT !.preprocessor = ready[1], !.classifier = ready[2],
              !.merchantExtractor = ready[3]]

IsFullRulePass(promise, description, amount) ==
    /\ promise.status = "resolved"
    /\ promise.value[1].merchant = fallbackMerchantExtraction(description)
    /\ promise.value[1].category = fallbackClassification(description, amount)
    /\ promise.value[1].confidence = [score |-> 600, source |-> "rules"]

\* C9: when preprocessing throws, or the pipeline is not ready, the call
\* degrades to one full rule-based pass: no ML stage is consulted, merchant
\* and category both come from the rule functions and the overall
\* confidence is exactly score 0.6 with source "rules".  The services are
\* ready from construction on, so the readiness test of enrichTransaction
\* is evaluated on the arguments of each call for every pipeline in which
\* a service is not ready.
C9_UnhandledFailureDegradesToRules ==
    call /= None
    => /\ call[1].nlp = None
          => /\ IsFullRulePass(enrichment, call[1].description,
                               call[1].amount)
             /\ merchantStage = NotRun
             /\ classifierStage = NotRun
       /\ (mlMerchantResult = None /\ mlCategoryResult = None)
          => \A ready \in (BOOLEAN \X BOOLEAN \X BOOLEAN)
                             \ {<<TRUE, TRUE, TRUE>>} :
                \E promise \in
                    {enrichTransactionStart(WithReadiness(pipeline, ready),
                         call[1].description, call[1].amount, call[1].type,
                         call[1].nlp)} :
                    IsFullRulePass(promise, call[1].description,
                                   call[1].amount)

\* preprocessing threw in a call on a pipeline with ML enabled, for a
\* description the rules find a merchant in
C9_Witness ==
    /\ call /= None
    /\ call[1].nlp = None
    /\ pipeline.config.useML
    /\ EnrichResolved
    /\ enrichment.value[1].merchant.merchant /= Unknown

-----------------------------------------------------------------------------
(* Progress, cancellation and parser selection *)

\* the progress value posted while page k of the request's document is
\* processed: handleParse posts 2, 5 and 10, parse reports 0.1 and 0.2, and
\* then one value per page
PageProgressValue(r, k) == ProgressValues(r)[5 + k]

\* C11: for a document of n >= 2 pages, the progress value posted while the
\* last page is processed is strictly greater than the one posted while the
\* first page is processed.
C11_ProgressReflectsPages ==
    \A r \in Submitted :
        LET n == Len(workload[r].pages)
        IN  (/\ canParse(workload[r])
             /\ workload[r].decodes
             /\ n >= 2
             /\ Len(ProgressValues(r)) >= 5 + n)
            => PageProgressValue(r, n) > PageProgressValue(r, 1)

RECURSIVE TranscriptFrom(_, _)
\* the messages of a request from the page local.pageNum on, when nothing
\* but the document decides them
TranscriptFrom(doc, local) ==
    IF local.pageNum > Len(doc.pages)
    THEN << Progress(100),
            [kind |-> "complete",
             result |-> [bank |-> "ICICI",
                         transactions |-> local.transactions,
                         warnings |-> local.warnings]] >>
    ELSE IF ~doc.pages[local.pageNum].ok
    THEN << ParseFailed("page could not be read") >>
    ELSE CHOOSE rest \in
           { IF next = None
             THEN << ParseFailed("Invalid date format") >>
             ELSE << AfterPage(next[1].pageNum, Len(doc.pages)) >>
                  \o TranscriptFrom(doc, next[1])
             : next \in {ProcessPage(local, doc.pages[local.pageNum])} }
           : TRUE

\* every message handleParse posts for a document, in order, when no cancel
\* message and no other request arrives
Transcript(doc) ==
    << Progress(2), Progress(5) >> \o
    (IF ~canParse(doc)
     THEN << Progress(100),
             NoSuitableParser >>
     ELSE << Progress(10), ParserProgress(100) >> \o
          (IF ~doc.decodes
           THEN << ParseFailed("InvalidPDFException") >>
           ELSE << ParserProgress(200), AfterPage(1, Len(doc.pages)) >>
                \o TranscriptFrom(doc, [IdleLocals EXCEPT !.pageNum = 1])))

IsPrefix(a, b) == Len(a) <= Len(b) /\ SubSeq(b, 1, Len(a)) = a

\* C12: a cancel message only sets the cancelled flag and posts nothing;
\* whatever cancel messages arrive, a request posts exactly the messages it
\* posts without them (a prefix of them while in flight, all of them once
\* it has ended); and a parse message resets the flag.
C12_CancelOnlySetsTheFlag ==
    /\ [](\A r \in Submitted :
            \E expected \in {Transcript(workload[r])} :
                /\ IsPrefix(posted[r], expected)
                /\ req[r].pc = "done" => posted[r] = expected)
    /\ [][(~cancelled /\ cancelled')
             => (posted' = posted /\ req' = req)]_vars
    /\ [][(\E r \in Requests : req[r].pc = "idle" /\ req'[r].pc /= "idle")
             => ~cancelled']_vars

\* the flag is set while a parse is in flight on the second page of its
\* document
C12_Witness ==
    /\ cancelled
    /\ \E r \in Submitted : req[r].pc = "page" /\ req[r].pageNum = 2

-----------------------------------------------------------------------------
(* icici.ts extractTransactionsFromPage: sorting the fragments of a page and
   building its rows *)

MaxItems == 3

MaxRuns == 2

\* a fragment: item.str, item.transform[4] in units and item.transform[5] in
\* tenths of a unit
FragmentXs == {0, 25, 50}

FragmentYs == {40, 60, 80, 105, 164}

\* the columns of a statement: the date, the amount and the type
ColumnText(x) ==
    IF x = 0 THEN <<"1","5","-","0","3","-","2","0","2","4">>
    ELSE IF x = 25 THEN <<"1","9","9",".","0","0">>
    ELSE <<"D","R">>

Fragments ==
    { [str |-> ColumnText(x), x |-> x, y |-> y] : x \in FragmentXs, y \in FragmentYs }

Abs(n) == IF n < 0 THEN 0 - n ELSE n

Range(seq) == { seq[i] : i \in 1..Len(seq) }

\* the pages: fragments at distinct positions, in any order
ItemLists ==
    { arr \in SeqsUpTo(Fragments, MaxItems) :
        \A i, j \in 1..Len(arr) : i /= j => arr[i] /= arr[j] }

\* the comparator given to items.sort
compareFn(a, b) ==
    IF Abs(a.y - b.y) > 30 THEN b.y - a.y ELSE a.x - b.x

\* a consistent comparator for the values of S, as Array.prototype.sort
\* requires it
ConsistentComparator(S) ==
    /\ \A a \in S : compareFn(a, a) = 0
    /\ \A a, b \in S : (compareFn(a, b) < 0) <=> (compareFn(b, a) > 0)
    /\ \A a, b, c \in S :
          /\ (compareFn(a, b) = 0 /\ compareFn(b, c) = 0) => compareFn(a, c) = 0
          /\ (compareFn(a, b) < 0 /\ compareFn(b, c) < 0) => compareFn(a, c) < 0
          /\ (compareFn(a, b) > 0 /\ compareFn(b, c) > 0) => compareFn(a, c) > 0

Reorder(arr, p) == [i \in 1..Len(arr) |-> arr[p[i]]]

\* p orders arr by compareFn and keeps the order of equal elements
IsStableOrder(arr, p) ==
    \A i, j \in 1..Len(arr) :
        i < j => \/ compareFn(arr[p[i]], arr[p[j]]) < 0
                 \/ compareFn(arr[p[i]], arr[p[j]]) = 0 /\ p[i] < p[j]

\* every pair of neighbours of arr is in order
IsOrdered(arr) ==
    \A i \in 1..Len(arr) - 1 : compareFn(arr[i], arr[i + 1]) <= 0

\* an outcome of items.sort in which the elements may come out in any order
sortAnyOrder(arr) ==
    { Reorder(arr, p) : p \in Permutations(1..Len(arr)) }

\* items.sort(compareFn): the stable order when the comparator is consistent
\* for the elements. Otherwise the order is implementation-defined: the
\* insertion and merge sorts of the engines compare every pair they leave
\* next to each other and return an array that is already one ascending run
\* as it is, so every reordering whose neighbours are in order is a possible
\* outcome, and an array whose neighbours are in order is left alone
sort(arr) ==
    IF IsOrdered(arr) THEN {arr}
    ELSE IF ConsistentComparator(Range(arr))
         THEN { Reorder(arr, p) : p \in { q \in Permutations(1..Len(arr)) :
                                              IsStableOrder(arr, q) } }
         ELSE { sorted \in sortAnyOrder(arr) : IsOrdered(sorted) }

\* Math.round of a coordinate given in tenths
round(tenths) == (tenths + 5) \div 10

Y_TOLERANCE == 5

PushRow(rws, currentRow) ==
    IF Len(currentRow) > 0 THEN Append(rws, currentRow) ELSE rws

RECURSIVE GroupItems(_, _, _, _)
\* the loop over sortedItems: an item joins the current row when its rounded
\* y is within Y_TOLERANCE of the previous item's
GroupItems(sortedItems, currentRow, lastY, rws) ==
    IF sortedItems = <<>> THEN PushRow(rws, currentRow)
    ELSE LET item == Head(sortedItems)
             y    == round(item.y)
         IN  IF lastY = -1 \/ Abs(y - lastY) <= Y_TOLERANCE
             THEN GroupItems(Tail(sortedItems), Append(currentRow, item), y, rws)
             ELSE GroupItems(Tail(sortedItems), <<item>>, y,
                             PushRow(rws, currentRow))

BuildRows(sortedItems) == GroupItems(sortedItems, <<>>, -1, <<>>)

\* one run of the row building of extractTransactionsFromPage over the
\* items array, which the sort reorders in place
ExtractRows ==
    /\ Len(rowRuns) < MaxRuns
    /\ \E sortedItems \in sort(items) :
          /\ items' = sortedItems
          /\ rowRuns' = Append(rowRuns, BuildRows(sortedItems))
    /\ UNCHANGED <<segVars, workerVars, enrichVars, dateVars, ruleVars>>

RowInit ==
    /\ items \in ItemLists
    /\ rowRuns = <<>>
    /\ workload = <<>>
    /\ WorkerIdle
    /\ DateIdle
    /\ RuleIdle
    /\ SegIdle
    /\ EnrichIdle

RowNext == ExtractRows

RowSpec == RowInit /\ [][RowNext]_vars

\* the index of the row that holds fragment f
RowOf(rws, f) ==
    CHOOSE k \in 1..Len(rws) : \E i \in 1..Len(rws[k]) : rws[k][i] = f

\* C14: after the rows of a page are built, two fragments whose y coordinates
\* differ by at most 5 are in the same row and two fragments whose y
\* coordinates differ by more than 5 are in different rows.
C14_RowsFollowTheTolerance ==
    \A n \in 1..Len(rowRuns) :
        \A f, g \in Range(items) :
            /\ Abs(f.y - g.y) <= 50 => RowOf(rowRuns[n], f) = RowOf(rowRuns[n], g)
            /\ Abs(f.y - g.y) > 50 => RowOf(rowRuns[n], f) /= RowOf(rowRuns[n], g)

\* the records the segmenter builds from the rows of one run
RunRecords(rws) ==
    SegmentPage([k \in 1..Len(rws) |-> [i \in 1..Len(rws[k]) |-> rws[k][i].str]])

-----------------------------------------------------------------------------
(* Categories and tags *)

\* a rule of DEFAULT_CATEGORY_RULES matches
SomeRuleMatches(description, merchant, amount) ==
    \E k \in 1..Len(DEFAULT_CATEGORY_RULES) :
        RuleMatches(DEFAULT_CATEGORY_RULES[k], toLowerCase(description),
                    toLowerCase(merchant), amount)

\* amounts, in hundredths, on both sides of every threshold of the tags
RuleAmounts == {0, 5000, 19900, 100000, 500000, 1000000, 1500000}

RuleMerchants ==
    { Unknown, <<"N","e","t","f","l","i","x">>, <<"A","B">>,
      <<"A","m","a","z","o","n">> }

\* the call has just been made
JustCalled == call /= None /\ ~merchantStage.ran /\ ~classifierStage.ran

\* C15: the category of every enrichment the pipeline resolves to, and of
\* every rule-based conversion, is a non-empty string; categorizeTransaction
\* gives "Others" exactly when no rule matches.
C15_CategoryIsNeverEmpty ==
    /\ EnrichResolved => Len(enrichment.value[1].category.category) > 0
    /\ JustCalled =>
          /\ \A merchant \in RuleMerchants :
               \E result \in {categorizeTransaction(call[1].description,
                                                    merchant, call[1].amount)} :
                  /\ Len(result.category) > 0
                  /\ (result.category = Others)
                        <=> ~SomeRuleMatches(call[1].description,
                                             merchant, call[1].amount)
          /\ Len(fallbackClassification(call[1].description,
                                        call[1].amount).category) > 0
          /\ Len(ConvertOne([date |-> <<"1","5","-","0","3","-","2","0","2","4">>,
                             description |-> call[1].description,
                             amount |-> Some(call[1].amount),
                             type |-> <<"D","R">>],
                            0, <<"1","2","3","4">>,
                            <<"I","C","I","C","I">>).category) > 0

C15_Witness ==
    /\ EnrichResolved
    /\ enrichment.value[1].category.category = Others
    /\ ~SomeRuleMatches(call[1].description,
                        extractMerchant(call[1].description), call[1].amount)

\* convertToTransactionInterfaceML, the catch branch: the tags of the
\* transaction
fallbackProcessingTags(description, amount) ==
    LET merchant == extractMerchant(description)
    IN  Append(generateTags(description, merchant,
                   categorizeTransaction(description, merchant, amount).category,
                   amount),
               <<"f","a","l","l","b","a","c","k","-","p","r","o","c","e","s","s","i","n","g">>)

RuleDescriptions ==
    Descriptions \cup {<<"I","M","P","S"," ","T","R","A","N","S","F","E","R">>}

\* categories of the rules and of the classifier, the empty category, and
\* categories whose tag is also the tag of a payment method or of a type
TagCategories ==
    { Others, <<>>, <<"U","P","I">>, <<"T","r","a","n","s","f","e","r">>,
      <<"F","o","o","d"," ","&"," ","D","i","n","i","n","g">>,
      <<"m","l"," ","e","n","h","a","n","c","e","d">> }

TagMerchants == { Unknown, <<"N","e","t","f","l","i","x">>, <<"A","B">> }

TagPaymentMethods == { <<"U","P","I">>, <<"C","a","r","d">>, <<"O","t","h","e","r">> }

RuleInit ==
    /\ ruleArgs \in [description : RuleDescriptions, merchant : TagMerchants,
                     category : TagCategories, amount : RuleAmounts,
                     paymentMethod : TagPaymentMethods]
    /\ ruleResult = <<>>
    /\ workload = <<>>
    /\ WorkerIdle
    /\ PageIdle
    /\ DateIdle
    /\ SegIdle
    /\ EnrichIdle

Returns(op, tags) ==
    /\ ruleResult = <<>>
    /\ ruleResult' = Some([op |-> op, tags |-> tags])
    /\ UNCHANGED <<ruleArgs, segVars, workerVars, enrichVars, pageVars, dateVars>>

GenerateTags ==
    Returns("generateTags",
            generateTags(ruleArgs.description, ruleArgs.merchant,
                         ruleArgs.category, ruleArgs.amount))

GenerateEnhancedTags ==
    Returns("generateEnhancedTags",
            generateEnhancedTags(ruleArgs.description, ruleArgs.merchant,
                                 ruleArgs.category, ruleArgs.amount,
                                 ruleArgs.paymentMethod))

\* the catch branch of convertToTransactionInterfaceML for one record
ConvertFallback ==
    Returns("fallback-processing",
            fallbackProcessingTags(ruleArgs.description, ruleArgs.amount))

\* convertToTransactionInterface for one record
ConvertRuleBased ==
    Returns("convertToTransactionInterface",
            ConvertOne([date |-> <<"1","5","-","0","3","-","2","0","2","4">>,
                        description |-> ruleArgs.description,
                        amount |-> Some(ruleArgs.amount),
                        type |-> <<"D","R">>],
                       0, <<"1","2","3","4">>, <<"I","C","I","C","I">>).tags)

RuleNext ==
    \/ GenerateTags
    \/ GenerateEnhancedTags
    \/ ConvertFallback
    \/ ConvertRuleBased

RuleSpec == RuleInit /\ [][RuleNext]_vars

\* the tags hold no empty string and no string twice
WellFormedTags(tags) ==
    /\ \A i \in 1..Len(tags) : Len(tags[i]) > 0
    /\ \A i, j \in 1..Len(tags) : i /= j => tags[i] /= tags[j]

\* C16: the tags of a transaction hold no empty string and no duplicate,
\* whether generateTags, generateEnhancedTags, the rule-based conversion or
\* the fallback branch of convertToTransactionInterfaceML builds them.
C16_TagsAreASet ==
    ruleResult /= <<>> => WellFormedTags(ruleResult[1].tags)

\* the category's tag is also the tag of the transfer type, and the fallback
\* branch has added its tag
C16_Witness ==
    /\ ruleResult /= <<>>
    /\ ruleResult[1].op \in {"generateEnhancedTags", "fallback-processing"}
    /\ Len(ruleResult[1].tags) >= 4
    /\ \/ /\ ruleArgs.category = <<"T","r","a","n","s","f","e","r">>
          /\ includes(toLowerCase(ruleArgs.description),
                      <<"t","r","a","n","s","f","e","r">>)
       \/ ruleResult[1].op = "fallback-processing"

-----------------------------------------------------------------------------
(* helpers.ts parseDate on its own *)

DayTexts == { <<"0","0">>, <<"0","1">>, <<"1","5">>, <<"2","8">>, <<"2","9">>, <<"3","0">>, <<"3","1">>, <<"3","2">> }

MonthTexts == { <<"0","0">>, <<"0","1">>, <<"0","2">>, <<"0","4">>, <<"1","2">>, <<"1","3">> }

YearTexts == { <<"1","8","9","9">>, <<"1","9","0","0">>, <<"2","0","2","3">>, <<"2","0","2","4">> }

Separators == {"-", "/"}

\* dates in the two formats, and strings that are not dates
DateTexts ==
    { d \o <<s1>> \o m \o <<s2>> \o y :
        d \in DayTexts, m \in MonthTexts, y \in YearTexts,
        s1 \in Separators, s2 \in Separators }
    \cup { <<"1","5","-","0","3">>,
           <<"1","5","-","0","3","-","2","0","2","4","-","0","1">>,
           <<>>,
           <<"a","b","-","0","3","-","2","0","2","4">>,
           <<"1","5",".","0","3",".","2","0","2","4">> }

DateInit ==
    /\ dateArg \in DateTexts
    /\ parsedDate = <<>>
    /\ workload = <<>>
    /\ WorkerIdle
    /\ PageIdle
    /\ RuleIdle
    /\ SegIdle
    /\ EnrichIdle

\* parseDate(dateArg) returns or throws
ParseDate ==
    /\ parsedDate = <<>>
    /\ parsedDate' = Some(parseDate(dateArg))
    /\ UNCHANGED <<dateArg, segVars, workerVars, enrichVars, pageVars, ruleVars>>

DateNext == ParseDate

DateSpec == DateInit /\ [][DateNext]_vars

\* day d of month m of year y is a day of the calendar
IsCalendarDate(d, m, y) ==
    /\ m \in 1..12
    /\ d >= 1
    /\ \/ d <= 28
       \/ d <= 30 /\ m /= 2
       \/ d = 31 /\ m \in {1, 3, 5, 7, 8, 10, 12}
       \/ d = 29 /\ m = 2 /\ (y % 400 = 0 \/ (y % 4 = 0 /\ y % 100 /= 0))

\* the same text with "-" for every separator
WithDashes(text) == [i \in 1..Len(text) |-> IF text[i] = "/" THEN "-" ELSE text[i]]

\* C17: for a text of the form DD-MM-YYYY or DD/MM/YYYY parseDate returns
\* that day, month and year exactly when they are a calendar date and the
\* year is 1900 or later, and throws otherwise; the separator makes no
\* difference; a text without three parts makes it throw.
C17_ParseDateAcceptsRealDates ==
    parsedDate /= <<>> =>
        /\ datePattern(dateArg) =>
              LET d == NatOf(SubSeq(dateArg, 1, 2))
                  m == NatOf(SubSeq(dateArg, 4, 5))
                  y == NatOf(SubSeq(dateArg, 7, 10))
              IN  /\ (parsedDate[1] /= None)
                        <=> (IsCalendarDate(d, m, y) /\ y >= 1900)
                  /\ parsedDate[1] /= None
                        => parsedDate[1][1] = [day |-> d, month |-> m, year |-> y]
                  /\ parseDate(WithDashes(dateArg)) = parsedDate[1]
        /\ ~datePattern(dateArg) => parsedDate[1] = None

\* 29/02/2024 was accepted
C17_Witness ==
    /\ parsedDate /= <<>>
    /\ dateArg = <<"2","9","/","0","2","/","2","0","2","4">>
    /\ parsedDate[1] /= None

-----------------------------------------------------------------------------
(* A page of one row, and the order of the records *)

\* a token that is neither a date, an amount nor a type
IsDescriptionToken(text) ==
    ~datePattern(text) /\ ~amountPattern(text) /\ ~typePattern(text)

\* the page is over
PageDone == rowIndex = Len(rows) + 2

\* C18: a page of a single row that holds one date token, one description
\* token, one amount token and one DR/CR token yields exactly one transaction
\* with that date, that amount and type debit for DR, credit for CR; for
\* UPI/NETFLIX/123, 199.00, DR its merchant is Netflix, its category
\* Entertainment / Streaming Services and it is recurring.
C18_SingleRowYieldsOneTransaction ==
    (PageDone /\ Len(rows) = 1 /\ Len(rows[1]) = 4) =>
        \A p \in Permutations(1..4) :
            LET date        == rows[1][p[1]]
                description == rows[1][p[2]]
                amount      == rows[1][p[3]]
                type        == rows[1][p[4]]
            IN  (/\ datePattern(date) /\ IsDescriptionToken(description)
                 /\ amountPattern(amount) /\ typePattern(type))
                => \E converted \in {convertToTransactionInterface(
                                         transactions, <<"1","2","3","4">>,
                                         <<"I","C","I","C","I">>)} :
                      /\ converted /= None
                      /\ Len(converted[1]) = 1
                      /\ Some(converted[1][1].date) = parseDate(date)
                      /\ converted[1][1].amount
                            = Some(parseFloat(RemoveChar(amount, ",")))
                      /\ converted[1][1].type
                            = (IF type = <<"D","R">> THEN "debit" ELSE "credit")
                      /\ (/\ description = <<"U","P","I","/","N","E","T","F","L","I","X","/","1","2","3">>
                          /\ amount = <<"1","9","9",".","0","0">>
                          /\ type = <<"D","R">>)
                         => /\ converted[1][1].merchant = <<"N","e","t","f","l","i","x">>
                            /\ converted[1][1].category
                                  = <<"E","n","t","e","r","t","a","i","n","m","e","n","t">>
                            /\ converted[1][1].subcategory
                                  = Some(<<"S","t","r","e","a","m","i","n","g"," ","S","e","r","v","i","c","e","s">>)
                            /\ converted[1][1].isRecurring

\* the positions of the tokens of a row that the row filter keeps and that
\* are dates
DatePositions(row) ==
    { k \in 1..Len(row) :
        /\ datePattern(trim(row[k]))
        /\ ~isSystemText(trim(row[k])) }

\* row i of the page holds a date
IsDateRow(i) == DatePositions(rows[i]) /= {}

\* the first date of a date row
RowDate(row) ==
    trim(row[CHOOSE k \in DatePositions(row) :
                 \A j \in DatePositions(row) : k <= j])

\* the dates of the date rows among the first n rows, in order
RECURSIVE DateRowDates(_)
DateRowDates(n) ==
    IF n = 0 THEN <<>>
    ELSE IF IsDateRow(n)
         THEN Append(DateRowDates(n - 1), RowDate(rows[n]))
         ELSE DateRowDates(n - 1)

\* a is b with some elements left out
RECURSIVE IsSubsequence(_, _)
IsSubsequence(a, b) ==
    IF a = <<>> THEN TRUE
    ELSE IF b = <<>> THEN FALSE
    ELSE IF Head(a) = Head(b) THEN IsSubsequence(Tail(a), Tail(b))
    ELSE IsSubsequence(a, Tail(b))

\* the rows scanned so far
Scanned == IF rowIndex > Len(rows) THEN Len(rows) ELSE rowIndex - 1

\* C20: the segmenter keeps at most one open record. Before the first date
\* row nothing is open and nothing is emitted; the open record is the one
\* of the last date row; a row without a date emits nothing and leaves the
\* date of the open record alone; a date row and the end of the page emit
\* at most one record, after the ones already emitted, which never change;
\* the emitted records follow the order of their date rows, at most one per
\* date row; after the end of the page no record is open.
C20_OneOpenRecordInRowOrder ==
    /\ [](\E dates \in {DateRowDates(Scanned)} :
          /\ currentTransaction = None \/ Len(currentTransaction) = 1
          /\ dates = <<>> => currentTransaction = None /\ transactions = <<>>
          /\ currentTransaction /= None
                => /\ dates /= <<>>
                   /\ currentTransaction[1].date = dates[Len(dates)]
          /\ IsSubsequence([i \in 1..Len(transactions) |-> transactions[i].date],
                           IF currentTransaction = None THEN dates
                           ELSE SubSeq(dates, 1, Len(dates) - 1))
          /\ rowIndex > Len(rows) + 1 => currentTransaction = None)
    /\ [][/\ IsPrefix(transactions, transactions')
          /\ Len(transactions') <= Len(transactions) + 1
          /\ (rowIndex <= Len(rows) /\ ~IsDateRow(rowIndex))
                => /\ transactions' = transactions
                   /\ (currentTransaction = None) <=> (currentTransaction' = None)
                   /\ currentTransaction /= None
                         => /\ currentTransaction'[1].date = currentTransaction[1].date
                            /\ IsPrefix(currentTransaction[1].descriptionParts,
                                        currentTransaction'[1].descriptionParts)
          /\ (rowIndex <= Len(rows) /\ IsDateRow(rowIndex))
                => /\ currentTransaction' /= None
                   /\ currentTransaction'[1].date = RowDate(rows[rowIndex])]_vars

\* two records were emitted on a page that also holds a row without a date
C20_Witness ==
    /\ PageDone
    /\ Len(transactions) = 2
    /\ \E i \in 1..Len(rows) : ~IsDateRow(i)

-----------------------------------------------------------------------------
(* The fields of a record *)

\* the last date row among the first n rows, 0 when there is none
RECURSIVE LastDateRow(_)
LastDateRow(n) ==
    IF n = 0 THEN 0
    ELSE IF IsDateRow(n) THEN n ELSE LastDateRow(n - 1)

\* the tokens of a row that the row filter keeps and that match the amount
\* pattern, in row order
RECURSIVE AmountTokens(_)
AmountTokens(row) ==
    IF row = <<>> THEN <<>>
    ELSE IF amountPattern(trim(Head(row))) /\ ~isSystemText(trim(Head(row)))
         THEN <<trim(Head(row))>> \o AmountTokens(Tail(row))
         ELSE AmountTokens(Tail(row))

\* the amount tokens of rows i..n, in order
RECURSIVE AmountTokensOfRows(_, _)
AmountTokensOfRows(i, n) ==
    IF i > n THEN <<>>
    ELSE AmountTokens(rows[i]) \o AmountTokensOfRows(i + 1, n)

\* C21: the amount of the open record is the value, commas stripped, of the
\* first token matching the amount pattern on its header row and the
\* continuation rows scanned so far, and is absent when there is no such
\* token; a later amount token never replaces it.
C21_FirstAmountTokenWins ==
    currentTransaction /= None =>
        \E tokens \in {AmountTokensOfRows(LastDateRow(Scanned), Scanned)} :
            IF tokens = <<>> THEN currentTransaction[1].amount = None
            ELSE currentTransaction[1].amount
                    = Some(parseFloat(RemoveChar(tokens[1], ",")))

-----------------------------------------------------------------------------
(* The order of the fragments in the rows *)

\* C22: in the rows of every run, whatever the input order of the fragments,
\* the fragments of a row are in ascending x and the rows are in descending
\* y: no fragment of a later row lies above a fragment of an earlier row.
C22_RowsDescendFragmentsAscend ==
    \A n \in 1..Len(rowRuns) :
        /\ \A k \in 1..Len(rowRuns[n]) :
              \A i, j \in 1..Len(rowRuns[n][k]) :
                  i < j => rowRuns[n][k][i].x <= rowRuns[n][k][j].x
        /\ \A k, l \in 1..Len(rowRuns[n]) :
              k < l => \A i \in 1..Len(rowRuns[n][k]) :
                          \A j \in 1..Len(rowRuns[n][l]) :
                              rowRuns[n][k][i].y >= rowRuns[n][l][j].y

-----------------------------------------------------------------------------
(* The helpers of the rule-based enrichment, each called on its own *)

HelperDescriptions ==
    { <<"U","P","I","/","s","w","i","g","g","y","/","4","5","0">>,
      <<"L","O","A","N"," ","E","M","I"," ","0","0","4","2">>,
      <<"U","P","I","/","1","2","3","/","s","h","o","p">>,
      <<"A","T","M"," ","C","A","S","H"," ","W","I","T","H","D","R","A","W","A","L">>,
      <<"U","P","I","/","A","B","/","1","2","3">>,
      <<"I","M","P","S","/","0","0","4","2","/","U","P","I","/","S","W","I","G","G","Y">>,
      <<" ","n","e","f","t","/","H","D","F","C","/","J","o","h","n"," ","D","o","e"," ","/","I","C","I","6","d","c","2","e">>,
      <<"U","P","I","/","A","M","A","Z","O","N"," ","P","R","I","M","E","/","7","7">> }

\* merchants with a merchant keyword, with the keyword "emi" of a rule
\* inside the name, with neither, and a name of the table with a space
\* in front
HelperMerchants ==
    { <<"S","w","i","g","g","y">>, <<"P","r","e","m","i","u","m">>, <<"N","e","t","f","l","i","x">>, Unknown,
      <<" ","s","w","i","g","g","y">> }

HelperAmounts == {0, 45000}

HelperInit ==
    /\ ruleArgs \in [description : HelperDescriptions,
                     merchant : HelperMerchants, amount : HelperAmounts]
    /\ ruleResult = <<>>
    /\ workload = <<>>
    /\ WorkerIdle
    /\ PageIdle
    /\ DateIdle
    /\ SegIdle
    /\ EnrichIdle

HelperReturns(op, value) ==
    /\ ruleResult = <<>>
    /\ ruleResult' = Some([op |-> op, value |-> value])
    /\ UNCHANGED <<ruleArgs, segVars, workerVars, enrichVars, pageVars, dateVars>>

CategorizeTransaction ==
    HelperReturns("categorizeTransaction",
                  categorizeTransaction(ruleArgs.description, ruleArgs.merchant,
                                        ruleArgs.amount))

ExtractMerchant ==
    HelperReturns("extractMerchant", extractMerchant(ruleArgs.description))

\* the record of the segmenter that the call's description and amount make
HelperRecord ==
    [date |-> <<"1","5","-","0","3","-","2","0","2","4">>,
     description |-> ruleArgs.description,
     amount |-> Some(ruleArgs.amount),
     type |-> <<"D","R">>]

\* the pipeline's fallbackToRules for the description and the amount
FallbackToRules ==
    HelperReturns("fallbackToRules",
                  fallbackToRules(ruleArgs.description, ruleArgs.amount, "debit"))

\* convertToTransactionInterface for the one record
ConvertToTransactionInterface ==
    HelperReturns("convertToTransactionInterface",
                  ConvertOne(HelperRecord, 0, <<"1","2","3","4">>,
                             <<"I","C","I","C","I">>))

\* normalizeMerchantName for the call's merchant name
NormalizeMerchantName ==
    HelperReturns("normalizeMerchantName",
                  normalizeMerchantName(ruleArgs.merchant))

HelperNext ==
    \/ CategorizeTransaction
    \/ ExtractMerchant
    \/ FallbackToRules
    \/ ConvertToTransactionInterface
    \/ NormalizeMerchantName

HelperSpec == HelperInit /\ [][HelperNext]_vars

\* some string of the list is a case-insensitive substring of the text
SomeIn(list, text) ==
    \E k \in 1..Len(list) : includes(toLowerCase(text), toLowerCase(list[k]))

\* the amount lies within the min and max the rule declares
WithinThreshold(rule, amount) ==
    \/ rule.amountThreshold = None
    \/ /\ rule.amountThreshold[1].min = None
            \/ amount >= rule.amountThreshold[1].min[1]
       /\ rule.amountThreshold[1].max = None
            \/ amount <= rule.amountThreshold[1].max[1]

\* the rules that match when the keywords are looked up in keywordText
MatchingRules(keywordText, merchant, amount) ==
    { k \in 1..Len(DEFAULT_CATEGORY_RULES) :
        /\ \/ SomeIn(DEFAULT_CATEGORY_RULES[k].keywords, keywordText)
           \/ SomeIn(DEFAULT_CATEGORY_RULES[k].merchantKeywords, merchant)
        /\ WithinThreshold(DEFAULT_CATEGORY_RULES[k], amount) }

\* the result is that of the first of the matching rules
IsOfFirstRule(result, matching) ==
    /\ matching /= {}
    /\ \E k \in matching :
          /\ \A j \in matching : k <= j
          /\ result.category = DEFAULT_CATEGORY_RULES[k].category
          /\ result.subcategory = DEFAULT_CATEGORY_RULES[k].subcategory
          /\ result.isRecurring
                = (DEFAULT_CATEGORY_RULES[k].isRecurring = Some(TRUE))

Categorized == ruleResult /= <<>> /\ ruleResult[1].op = "categorizeTransaction"

SwiggyExample ==
    /\ ruleArgs.merchant = <<"S","w","i","g","g","y">>
    /\ includes(toLowerCase(ruleArgs.description), <<"s","w","i","g","g","y">>)
    /\ ruleArgs.amount = 45000

\* C23 as stated: when a rule matches with its keywords looked up in the
\* description and the merchant together, or its merchantKeywords in the
\* merchant, categorizeTransaction returns the category, subcategory and
\* recurrence flag of the first such rule.
C23_FirstRuleOverDescriptionAndMerchant ==
    Categorized =>
        \E matching \in {MatchingRules(ruleArgs.description \o <<" ">>
                                          \o ruleArgs.merchant,
                                      ruleArgs.merchant, ruleArgs.amount)} :
            matching /= {} => IsOfFirstRule(ruleResult[1].value, matching)

\* C23: categorizeTransaction returns the category, subcategory and
\* recurrence flag (false when undeclared) of the first rule, in list order,
\* one of whose keywords is in the description alone or one of whose
\* merchantKeywords is in the merchant alone, the amount being within the
\* rule's threshold, and the category "Others" when there is no such rule;
\* merchant "Swiggy" with "swiggy" in the description and amount 450 gives
\* "Food & Dining" / "Food Delivery", not recurring.
C23_FirstRuleOverDescriptionOrMerchant ==
    Categorized =>
        /\ \E matching \in {MatchingRules(ruleArgs.description,
                                         ruleArgs.merchant, ruleArgs.amount)} :
              IF matching /= {}
              THEN IsOfFirstRule(ruleResult[1].value, matching)
              ELSE ruleResult[1].value.category = Others
        /\ SwiggyExample =>
              /\ ruleResult[1].value.category = <<"F","o","o","d"," ","&"," ","D","i","n","i","n","g">>
              /\ ruleResult[1].value.subcategory = Some(<<"F","o","o","d"," ","D","e","l","i","v","e","r","y">>)
              /\ ~ruleResult[1].value.isRecurring

\* the description has a keyword of the eighth rule and the merchant a
\* merchant keyword of the first
C23_Witness ==
    /\ Categorized
    /\ ruleArgs.merchant = <<"S","w","i","g","g","y">>
    /\ includes(toLowerCase(ruleArgs.description), <<"e","m","i">>)
    /\ ruleResult[1].value.category = <<"F","o","o","d"," ","&"," ","D","i","n","i","n","g">>

\* the patterns, in list order, whose regex matches the trimmed description
\* with a captured group of more than minLength characters after trimming
YieldingPatterns(description, minLength) ==
    { k \in 1..Len(UPI_MERCHANT_PATTERNS) :
        \E m \in {PatternMatch(trim(description), UPI_MERCHANT_PATTERNS[k])} :
            m /= None /\ Len(trim(m[1])) > minLength }

\* the normalized captured group of the first of the patterns, "Unknown"
\* when there is none
FirstYield(description, yielding) ==
    IF yielding = {} THEN Unknown
    ELSE normalizeMerchantName(
             trim(PatternMatch(trim(description),
                      UPI_MERCHANT_PATTERNS[
                          CHOOSE k \in yielding : \A j \in yielding : k <= j])[1]))

Extracted == ruleResult /= <<>> /\ ruleResult[1].op = "extractMerchant"

\* C24 as stated: extractMerchant returns the normalized captured group of
\* the first pattern, in list order, that matches the description with a
\* non-empty captured group, and "Unknown" only when there is no such
\* pattern.
C24_FirstNonEmptyGroup ==
    Extracted =>
        ruleResult[1].value
            = FirstYield(ruleArgs.description,
                         YieldingPatterns(ruleArgs.description, 0))

\* C24: extractMerchant returns the normalized captured group of the first
\* pattern, in list order, that matches the trimmed description with a
\* captured group of more than two characters after trimming, and "Unknown"
\* when there is no such pattern.
C24_FirstGroupLongerThanTwo ==
    Extracted =>
        ruleResult[1].value
            = FirstYield(ruleArgs.description,
                         YieldingPatterns(ruleArgs.description, 2))

\* two patterns match and the first of the list gives the name
C24_Witness ==
    /\ Extracted
    /\ Cardinality(YieldingPatterns(ruleArgs.description, 2)) >= 2
    /\ ruleResult[1].value = <<"S","w","i","g","g","y">>

-----------------------------------------------------------------------------
(* The ids of the transactions of one parse *)

\* C25: in every complete message, over documents of one page and of more,
\* the ids of the transactions are pairwise distinct.
C25_IdsAreDistinct ==
    \A r \in Requests :
        \A k \in 1..Len(posted[r]) :
            posted[r][k].kind = "complete" =>
                \A i, j \in 1..Len(posted[r][k].result.transactions) :
                    i /= j => posted[r][k].result.transactions[i].id
                                /= posted[r][k].result.transactions[j].id

-----------------------------------------------------------------------------
(* The end of a parse request *)

\* a step of handleParse for request r: one of its awaits settles
Settles(r) ==
    \/ GetParsersResolves(r)
    \/ CanParseSettles(r)
    \/ LoadSettles(r)
    \/ PageSettles(r)
    \/ ParseResolves(r)

LiveParseInit ==
    /\ workload \in {<<d>> : d \in Documents({GoodPage, UnreadablePage})}
    /\ WorkerIdle
    /\ PageIdle
    /\ DateIdle
    /\ RuleIdle
    /\ SegIdle
    /\ EnrichIdle

\* one parse request whose awaits all settle
LiveParseSpec ==
    /\ LiveParseInit
    /\ [][Next]_vars
    /\ \A r \in Requests : WF_vars(Settles(r))

IsTerminal(m) == m.kind \in {"complete", "error"}

Terminals(r) == SelectSeq(posted[r], IsTerminal)

\* at most one terminal message, nothing after it, and one once handleParse
\* has returned
EndsOnce(r) ==
    /\ Len(Terminals(r)) <= 1
    /\ Len(Terminals(r)) = 1 =>
          /\ IsTerminal(posted[r][Len(posted[r])])
          /\ req[r].pc = "done"
    /\ req[r].pc = "done" => Len(Terminals(r)) = 1

\* C26: every parse request the worker handles posts exactly one terminal
\* message, a complete or an error, never both, with no message of the
\* request after it, and, its awaits settling, it does post one.
C26_OneTerminalMessage ==
    /\ [](\A r \in Requests : EndsOnce(r))
    /\ \A r \in Requests :
          (req[r].pc /= "idle") ~> (Len(Terminals(r)) = 1)

\* a request has ended with its result after the progress of two pages
C26_Witness ==
    /\ req[1].pc = "done"
    /\ Len(Completes(1)) = 1
    /\ Len(posted[1]) > 6
    /\ Len(workload[1].pages) = 2

-----------------------------------------------------------------------------
(* Two parse requests *)

\* handleParse has started for the request and has not returned
InFlight(r) == req[r].pc \notin {"idle", "done"}

\* C27: at most one parse is in flight in the worker: no request starts
\* running while another has started and not yet posted its terminal
\* message.
C27_OneParseInFlight ==
    \A r, q \in Requests : InFlight(r) /\ InFlight(q) => r = q

-----------------------------------------------------------------------------
(* The tokens of a description *)

\* C28: every token the open record's description is built from, whether it
\* stood on the header row or on a continuation row, matches neither the
\* amount pattern nor the DR/CR pattern.
C28_DescriptionHasNoAmountOrType ==
    currentTransaction /= None =>
        \A k \in 1..Len(currentTransaction[1].descriptionParts) :
            /\ ~amountPattern(currentTransaction[1].descriptionParts[k])
            /\ ~typePattern(currentTransaction[1].descriptionParts[k])

-----------------------------------------------------------------------------
(* The full rule-based fallback and the direct conversion *)

\* the enrichment has the fields of the converted transaction
SameEnrichment(fallback, direct) ==
    /\ fallback.merchant.merchant = direct.merchant
    /\ fallback.category.category = direct.category
    /\ fallback.category.subcategory = direct.subcategory
    /\ fallback.paymentMethod = direct.paymentMethod
    /\ fallback.isRecurring = direct.isRecurring
    /\ fallback.tags = direct.tags
    /\ fallback.notes = direct.notes

\* C29: for every description and amount, fallbackToRules yields the
\* merchant, category, subcategory, payment method, recurrence flag, tags and
\* notes that convertToTransactionInterface yields for the same input.
C29_FallbackEqualsDirectConversion ==
    ruleResult /= <<>> =>
        /\ ruleResult[1].op = "fallbackToRules" =>
              SameEnrichment(ruleResult[1].value,
                             ConvertOne(HelperRecord, 0, <<"1","2","3","4">>,
                                        <<"I","C","I","C","I">>))
        /\ ruleResult[1].op = "convertToTransactionInterface" =>
              SameEnrichment(fallbackToRules(ruleArgs.description,
                                             ruleArgs.amount, "debit"),
                             ruleResult[1].value)

-----------------------------------------------------------------------------
(* Normalizing a merchant name twice *)

\* C30: normalizeMerchantName is idempotent: for every name, normalizing
\* the result again returns the same string; so the second normalization
\* that fallbackMerchantExtraction applies to the merchant of extractMerchant
\* changes nothing.
C30_NormalizeIsIdempotent ==
    ruleResult /= <<>> =>
        /\ ruleResult[1].op = "normalizeMerchantName" =>
              normalizeMerchantName(ruleResult[1].value) = ruleResult[1].value
        /\ ruleResult[1].op = "fallbackToRules" =>
              ruleResult[1].value.merchant.normalizedMerchant
                  = ruleResult[1].value.merchant.merchant

=============================================================================
